---------------------------- MODULE Spec2Model ----------------------------
(***************************************************************************)
(* The tool dispatcher of the MCP server (src/src/server_refactored.py),   *)
(* its fourteen handlers (src/src/handlers/*.py) and the gateway client    *)
(* they call (src/src/config.py), as a state machine.                      *)
(*                                                                         *)
(* One tool invocation is followed from the dispatcher's entry to its      *)
(* return.  A handler is a coroutine: it runs from its entry, or from the  *)
(* gateway call it is suspended at, to its next gateway call, its return   *)
(* or an exception.  Each handler is an operator                           *)
(*     handle_x(arguments, at, frame, reply)                               *)
(* of the argument map, the suspension point `at` ("entry" at the start),  *)
(* the handler's local variables `frame` and the gateway's reply to the    *)
(* call it was suspended at.  It yields a step: DoCall (await a gateway    *)
(* call), DoReturn (return a result) or DoRaise (an exception leaves the   *)
(* handler).  The gateway is the environment: it answers a call with a     *)
(* JSON body or fails it (raise_for_status, a transport error).            *)
(*                                                                         *)
(* Python values: a dict is a function on its keys, a list a sequence, a   *)
(* str a string; str formatting is string concatenation.                   *)
(*                                                                         *)
(* Spec follows one invocation that came through either transport          *)
(* (POST /tools/call or call_tool); SpecConcurrent follows several         *)
(* invocations that are in flight at once and switch at their awaits.      *)
(***************************************************************************)
EXTENDS Integers, Sequences, FiniteSets, TLC

VARIABLES
    SECURITY_AVAILABLE, \* config.py: whether the formula safety layer was imported
    pc,                 \* "idle", "await" (suspended at a gateway call), "done"
    name,               \* the tool name of the invocation
    arguments,          \* its argument map
    at,                 \* the handler's suspension point
    frame,              \* the handler's local variables kept across the await
    calls,              \* the gateway calls issued so far, in order
    replies,            \* the gateway's replies to them, in order
    result,             \* the List[TextContent] returned by the dispatcher
    handler_exc,        \* the message of the exception that left the handler
    escaped,            \* whether an exception left the dispatcher
    transport,          \* "http" (POST /tools/call) or "stdio" (call_tool)
    response,           \* what the transport handed its caller
    tasks               \* the invocations in flight at once, each with its own
                        \* pc, name, arguments, at, frame, calls, replies, result

vars == <<SECURITY_AVAILABLE, pc, name, arguments, at, frame, calls, replies,
          result, handler_exc, escaped, transport, response, tasks>>

---------------------------------------------------------------------------
(* Bounds of the model *)

\* lists of the `records` argument have 0..MaxRecs elements, or MAX_BATCH
\* and MAX_BATCH + 1 elements
MaxRecs == 3

\* the largest schema the gateway answers with has MaxTables tables
MaxTables == 12

\* the invocations that may be in flight at once
MaxTasks == 2

---------------------------------------------------------------------------
(* Python values *)

EmptyDict == [k \in {} |-> TRUE]
NoValue == "<none>"
NoReply == [ok |-> TRUE, body |-> EmptyDict]

\* d.get(k, default)
Get(d, k, default) == IF k \in DOMAIN d THEN d[k] ELSE default

\* str(KeyError(k)), the message of d[k] on a missing key
KeyErrorStr(k) == "'" \o k \o "'"

\* the first key of `keys` that `d` lacks, NoValue when it has them all:
\* the handlers read their required arguments one after the other
RECURSIVE FirstMissing(_, _)
FirstMissing(d, keys) ==
    IF keys = <<>> THEN NoValue
    ELSE IF Head(keys) \notin DOMAIN d THEN Head(keys)
    ELSE FirstMissing(d, Tail(keys))

\* JSON values of record fields, tagged by their type
JStr(s) == [str |-> s]
JNum(n) == [num |-> n]
JList(items) == [list |-> items]
JNull == [null |-> TRUE]
IsStr(v) == "str" \in DOMAIN v
IsNum(v) == "num" \in DOMAIN v
IsJList(v) == "list" \in DOMAIN v
\* an emptiness test that counts "" as a value
IsEmptyValue_null_only(v) == v = JNull

\* value is None or value == ""
IsEmptyValue(v) == v = JNull \/ v = JStr("")
\* record.get("fields", {}).get(field): JNull stands for None
FieldValue(record, field) == Get(Get(record, "fields", EmptyDict), field, JNull)

\* the elements of a finite set of integers in increasing order
RECURSIVE SortedSeq(_)
SortedSeq(S) ==
    IF S = {} THEN <<>>
    ELSE LET m == CHOOSE x \in S : \A y \in S : x <= y
         IN  <<m>> \o SortedSeq(S \ {m})

\* the subsequence of seq at the indices of S, in order
Select(seq, S) == [k \in 1..Cardinality(S) |-> seq[SortedSeq(S)[k]]]

RECURSIVE Sum(_)
Sum(ns) == IF ns = <<>> THEN 0 ELSE Head(ns) + Sum(Tail(ns))

\* a minimum that is its first argument
Min2_first(a, b) == a

Min2(a, b) == IF a <= b THEN a ELSE b
MaxOf(ns) == CHOOSE x \in {ns[i] : i \in DOMAIN ns} : \A i \in DOMAIN ns : ns[i] <= x
MinOf(ns) == CHOOSE x \in {ns[i] : i \in DOMAIN ns} : \A i \in DOMAIN ns : x <= ns[i]

\* round(n / d * scale) for n >= 0, d > 0, to the nearest integer: a float
\* with one decimal is kept in tenths (scale 1000 for a percentage, 10 for
\* a mean), one with two decimals in hundredths.  No quotient of the model
\* lies halfway between two results.
Round(n, d, scale) == (2 * n * scale + d) \div (2 * d)

\* str.lower() on one character
LowerChar(c) ==
    CASE c = "A" -> "a" [] c = "B" -> "b" [] c = "C" -> "c" [] c = "D" -> "d"
      [] c = "E" -> "e" [] c = "F" -> "f" [] c = "G" -> "g" [] c = "H" -> "h"
      [] c = "I" -> "i" [] c = "J" -> "j" [] c = "K" -> "k" [] c = "L" -> "l"
      [] c = "M" -> "m" [] c = "N" -> "n" [] c = "O" -> "o" [] c = "P" -> "p"
      [] c = "Q" -> "q" [] c = "R" -> "r" [] c = "S" -> "s" [] c = "T" -> "t"
      [] c = "U" -> "u" [] c = "V" -> "v" [] c = "W" -> "w" [] c = "X" -> "x"
      [] c = "Y" -> "y" [] c = "Z" -> "z" [] OTHER -> c

\* str.lower()
RECURSIVE LowerFrom(_, _)
LowerFrom(str, i) ==
    IF i > Len(str) THEN ""
    ELSE LowerChar(SubSeq(str, i, i)) \o LowerFrom(str, i + 1)

Lower(str) == LowerFrom(str, 1)

\* str.strip(), the blank being the whitespace of the model's strings
Strip(str) ==
    LET inked == {i \in 1..Len(str) : SubSeq(str, i, i) # " "}
    IN  IF inked = {} THEN ""
        ELSE SubSeq(str, CHOOSE i \in inked : \A j \in inked : i <= j,
                         CHOOSE i \in inked : \A j \in inked : j <= i)

\* needle in hay
Contains(needle, hay) ==
    \E i \in 1..(Len(hay) - Len(needle) + 1) :
        SubSeq(hay, i, i + Len(needle) - 1) = needle

\* TextContent(type="text", text=s)
Text(s) == [type |-> "text", text |-> s]
\* TextContent(type="text", text=json.dumps(v, indent=2))
JsonText(v) == [type |-> "text", json |-> v]

---------------------------------------------------------------------------
(* Handler steps *)

DoCall(call, label, fr) == [op |-> "call", call |-> call, at |-> label, frame |-> fr]
DoReturn(res) == [op |-> "return", result |-> res]
DoRaise(msg) == [op |-> "raise", exc |-> msg]

---------------------------------------------------------------------------
(* Gateway client, config.py *)

GatewayGet(endpoint, params) == [method |-> "GET", endpoint |-> endpoint, params |-> params]
GatewayPost(endpoint, data) == [method |-> "POST", endpoint |-> endpoint, data |-> data]
GatewayPatch(endpoint, data) == [method |-> "PATCH", endpoint |-> endpoint, data |-> data]
GatewayDelete(endpoint) == [method |-> "DELETE", endpoint |-> endpoint]

SchemaEndpoint(base_id) == "/bases/" \o base_id \o "/schema"
RecordsEndpoint(base_id, table_id) ==
    "/bases/" \o base_id \o "/tables/" \o table_id \o "/records"
RecordEndpoint(base_id, table_id, record_id) ==
    RecordsEndpoint(base_id, table_id) \o "/" \o record_id
BatchEndpoint(base_id, table_id) == RecordsEndpoint(base_id, table_id) \o "/batch"


---------------------------------------------------------------------------
(* Formula safety layer (pyairtable_common.security, imported by config.py) *)

\* how many times the character c occurs in str
Count(c, str) == Cardinality({i \in 1..Len(str) : SubSeq(str, i, i) = c})

\* the control characters of the model's strings
HasControlChar(str) == Contains("\n", str) \/ Contains("\t", str)

\* functions a filter formula may not call
DisallowedFunctions == {"EVAL(", "EXEC("}

\* the disallowed constructs: unbalanced quoting or parentheses, a
\* disallowed function, a control character
IsInjection(raw) ==
    \/ Count("(", raw) # Count(")", raw)
    \/ Count("'", raw) % 2 = 1
    \/ \E f \in DisallowedFunctions : Contains(f, raw)
    \/ HasControlChar(raw)

\* str(AirtableFormulaInjectionError(...))
InjectionMessage(raw) == "Invalid formula input: " \o raw

FormulaOk(value) == [raised |-> FALSE, value |-> value]
FormulaRejected(raw) == [raised |-> TRUE, error |-> InjectionMessage(raw)]

\* a safe formula is returned normalized: without its surrounding blanks
validate_filter_formula(raw) ==
    IF IsInjection(raw) THEN FormulaRejected(raw)
    ELSE FormulaOk(Strip(raw))

\* the query with every quote escaped
RECURSIVE EscapeFrom(_, _)
EscapeFrom(query, i) ==
    IF i > Len(query) THEN ""
    ELSE (IF SubSeq(query, i, i) = "'" THEN "\\'" ELSE SubSeq(query, i, i))
             \o EscapeFrom(query, i + 1)

sanitize_user_query(query) == EscapeFrom(query, 1)

\* the characters of an allow-listed field name
FieldNameChars ==
    {"a", "b", "c", "d", "e", "f", "g", "h", "i", "j", "k", "l", "m", "n", "o",
     "p", "q", "r", "s", "t", "u", "v", "w", "x", "y", "z", "0", "1", "2", "3",
     "4", "5", "6", "7", "8", "9", "_", " "}

IsValidFieldName(field) ==
    /\ Len(field) > 0
    /\ \A i \in 1..Len(field) : LowerChar(SubSeq(field, i, i)) \in FieldNameChars

\* strs[i], strs[i + 1], ... joined by sep
RECURSIVE JoinFrom(_, _, _)
JoinFrom(strs, sep, i) ==
    IF i > Len(strs) THEN ""
    ELSE IF i = Len(strs) THEN strs[i]
    ELSE strs[i] \o sep \o JoinFrom(strs, sep, i + 1)

\* sep.join(strs)
Join(strs, sep) == JoinFrom(strs, sep, 1)

build_safe_search_formula(query, fields) ==
    IF HasControlChar(query) THEN FormulaRejected(query)
    ELSE IF \E i \in DOMAIN fields : ~IsValidFieldName(fields[i])
    THEN FormulaRejected(fields[CHOOSE i \in DOMAIN fields :
                                    /\ ~IsValidFieldName(fields[i])
                                    /\ \A j \in 1..(i - 1) : IsValidFieldName(fields[j])])
    ELSE LET q == sanitize_user_query(query)
             conditions == [i \in DOMAIN fields |->
                 "SEARCH(LOWER('" \o q \o "'), LOWER({" \o fields[i] \o "}))"]
         IN  IF fields # <<>>
             THEN FormulaOk("OR(" \o Join(conditions, ", ") \o ")")
             ELSE FormulaOk("SEARCH(LOWER('" \o q \o "'), LOWER(CONCATENATE(VALUES())))")

---------------------------------------------------------------------------
(* Table handlers, handlers/table_handlers.py *)

\* one entry of table_info
TableInfo(table) ==
    [id |-> table["id"], name |-> table["name"],
     description |-> Get(table, "description", ""),
     field_count |-> Len(Get(table, "fields", <<>>)),
     view_count |-> Len(Get(table, "views", <<>>))]

handle_list_tables(args, label, fr, reply) ==
    IF label = "entry" THEN
        IF "base_id" \notin DOMAIN args THEN DoRaise(KeyErrorStr("base_id"))
        ELSE DoCall(GatewayGet(SchemaEndpoint(args["base_id"]), EmptyDict),
                    "schema", EmptyDict)
    ELSE \* resumed from gateway.get(schema)
        IF ~reply.ok THEN DoRaise(reply.error)
        ELSE LET tables == Get(reply.body, "tables", <<>>)
                 bad == \E i \in DOMAIN tables : ~({"id", "name"} \subseteq DOMAIN tables[i])
             IN  IF bad
                 THEN LET i == CHOOSE i \in DOMAIN tables :
                                 /\ ~({"id", "name"} \subseteq DOMAIN tables[i])
                                 /\ \A j \in 1..(i - 1) : {"id", "name"} \subseteq DOMAIN tables[j]
                      IN  DoRaise(KeyErrorStr(FirstMissing(tables[i], <<"id", "name">>)))
                 ELSE DoReturn(<<JsonText(
                          [base_id |-> args["base_id"],
                           table_count |-> Len(tables),
                           tables |-> [i \in DOMAIN tables |-> TableInfo(tables[i])]])>>)

\* params with a max_records the caller did not give
GetRecordsParams_defaulted(args) ==
    [k \in {"max_records", "view"} \cap DOMAIN args |-> args[k]]
        @@ [max_records |-> 100]

\* params of handle_get_records before the formula is looked at
GetRecordsParams(args) ==
    [k \in {"max_records", "view"} \cap DOMAIN args |-> args[k]]

\* the formula put in params without being validated
FilterFormula_unvalidated(raw) == FormulaOk(raw)

\* the formula handle_get_records puts in params: the validated one, or,
\* without the security module, the formula as it came
FilterFormula(raw) ==
    IF SECURITY_AVAILABLE THEN validate_filter_formula(raw) ELSE FormulaOk(raw)

\* the GET of handle_get_records with its params
GetRecordsCall(args, params) ==
    DoCall(GatewayGet(RecordsEndpoint(args["base_id"], args["table_id"]), params),
           "records", EmptyDict)

\* the step of handle_get_records once the formula was looked at
FilteredGet(args, formula) ==
    IF formula.raised
    THEN DoReturn(<<Text("Security Error: " \o formula.error)>>)
    ELSE GetRecordsCall(args, ("filter_by_formula" :> formula.value) @@ GetRecordsParams(args))

handle_get_records(args, label, fr, reply) ==
    IF label = "entry" THEN
        IF FirstMissing(args, <<"base_id", "table_id">>) # NoValue
        THEN DoRaise(KeyErrorStr(FirstMissing(args, <<"base_id", "table_id">>)))
        ELSE IF "filter_by_formula" \in DOMAIN args
        THEN FilteredGet(args, FilterFormula(args["filter_by_formula"]))
        ELSE GetRecordsCall(args, GetRecordsParams(args))
    ELSE \* resumed from gateway.get(records)
        IF ~reply.ok THEN DoRaise(reply.error)
        ELSE DoReturn(<<JsonText(reply.body)>>)

\* the loop that looks for target_table from table i on: the first table,
\* in schema order, whose id or name is table_id ("found"), "missing" when
\* there is none, "raise" when a table before it lacks a key the loop reads
RECURSIVE ScanTables(_, _, _)
ScanTables(tables, table_id, i) ==
    IF i > Len(tables) THEN [op |-> "missing"]
    ELSE IF "id" \notin DOMAIN tables[i] THEN [op |-> "raise", exc |-> KeyErrorStr("id")]
    ELSE IF tables[i]["id"] = table_id THEN [op |-> "found", index |-> i]
    ELSE IF "name" \notin DOMAIN tables[i] THEN [op |-> "raise", exc |-> KeyErrorStr("name")]
    ELSE IF tables[i]["name"] = table_id THEN [op |-> "found", index |-> i]
    ELSE ScanTables(tables, table_id, i + 1)

\* a lookup that takes the last entry of the schema that matches
FindTable_last(tables, table_id) ==
    LET matching == {i \in DOMAIN tables :
                        \/ Get(tables[i], "id", NoValue) = table_id
                        \/ Get(tables[i], "name", NoValue) = table_id}
    IN  IF matching = {} THEN [op |-> "missing"]
        ELSE [op |-> "found", index |-> SortedSeq(matching)[Cardinality(matching)]]

FindTable(tables, table_id) == ScanTables(tables, table_id, 1)

\* the choices of a select field
ChoiceNames(field) ==
    LET choices == Get(Get(field, "options", EmptyDict), "choices", <<>>)
    IN  [i \in DOMAIN choices |-> Get(choices[i], "name", NoValue)]

\* field_info of one field of target_table
FieldInfo(field, target_table) ==
    LET options == Get(field, "options", EmptyDict)
        base == [name |-> field["name"], id |-> field["id"], type |-> field["type"],
                 description |-> Get(field, "description", ""),
                 is_primary |-> (Get(field, "id", NoValue)
                                     = Get(target_table, "primaryFieldId", NoValue)),
                 options |-> options]
    IN  IF field["type"] \in {"singleSelect", "multipleSelect"}
        THEN [choice_count |-> Len(ChoiceNames(field)), choices |-> ChoiceNames(field)] @@ base
        ELSE IF field["type"] = "formula"
        THEN [formula |-> Get(options, "formula", "")] @@ base
        ELSE IF field["type"] = "lookup"
        THEN [linked_table |-> Get(options, "relationshipTableId", NoValue),
              lookup_field |-> Get(options, "fieldIdInLinkedTable", NoValue)] @@ base
        ELSE base

\* response["field_types"]: how many fields have each type
FieldTypeCounts(fields) ==
    [t \in {fields[i]["type"] : i \in DOMAIN fields} |->
        Cardinality({i \in DOMAIN fields : fields[i]["type"] = t})]

handle_get_field_info(args, label, fr, reply) ==
    IF label = "entry" THEN
        LET missing == FirstMissing(args, <<"base_id", "table_id">>)
        IN  IF missing # NoValue THEN DoRaise(KeyErrorStr(missing))
            ELSE DoCall(GatewayGet(SchemaEndpoint(args["base_id"]), EmptyDict),
                        "schema", EmptyDict)
    ELSE \* resumed from gateway.get(schema)
        IF ~reply.ok THEN DoRaise(reply.error)
        ELSE LET tables == Get(reply.body, "tables", <<>>)
                 found == FindTable(tables, args["table_id"])
                 target_table == tables[found.index]
                 fields == Get(target_table, "fields", <<>>)
             IN  IF found.op = "raise" THEN DoRaise(found.exc)
                 ELSE IF found.op = "missing"
                 THEN DoReturn(<<Text("Error: Table '" \o args["table_id"] \o "' not found")>>)
                 ELSE DoReturn(<<JsonText(
                          [table_name |-> target_table["name"],
                           table_id |-> target_table["id"],
                           total_fields |-> Len(fields),
                           field_types |-> FieldTypeCounts(fields),
                           fields |-> [i \in DOMAIN fields |->
                                          FieldInfo(fields[i], target_table)]])>>)

---------------------------------------------------------------------------
(* Record handlers, handlers/record_handlers.py *)

\* "Maximum 10 records per batch operation (Airtable limit)"
MAX_BATCH == 10

\* a `records` argument: a list, or a JSON value that is no list
PyList(items) == [type |-> "list", items |-> items]
NonList(type, truthy) == [type |-> type, truthy |-> truthy]
\* isinstance(v, list)
IsList(v) == v.type = "list"
\* bool(v)
Truthy(v) == IF IsList(v) THEN v.items # <<>> ELSE v.truthy

handle_create_record(args, label, fr, reply) ==
    IF label = "entry" THEN
        LET missing == FirstMissing(args, <<"base_id", "table_id", "fields">>)
        IN  IF missing # NoValue THEN DoRaise(KeyErrorStr(missing))
            ELSE DoCall(GatewayPost(RecordsEndpoint(args["base_id"], args["table_id"]),
                                    args["fields"]),
                        "post", EmptyDict)
    ELSE \* resumed from gateway.post
        IF ~reply.ok THEN DoRaise(reply.error)
        ELSE DoReturn(<<JsonText(reply.body)>>)

handle_update_record(args, label, fr, reply) ==
    IF label = "entry" THEN
        LET missing == FirstMissing(args, <<"base_id", "table_id", "record_id", "fields">>)
        IN  IF missing # NoValue THEN DoRaise(KeyErrorStr(missing))
            ELSE DoCall(GatewayPatch(RecordEndpoint(args["base_id"], args["table_id"],
                                                    args["record_id"]),
                                     args["fields"]),
                        "patch", EmptyDict)
    ELSE \* resumed from gateway.patch
        IF ~reply.ok THEN DoRaise(reply.error)
        ELSE DoReturn(<<JsonText(reply.body)>>)

\* the record deleted by a PATCH that clears it
handle_delete_record_by_patch(args, label, fr, reply) ==
    IF label = "entry" THEN
        LET missing == FirstMissing(args, <<"base_id", "table_id", "record_id">>)
        IN  IF missing # NoValue THEN DoRaise(KeyErrorStr(missing))
            ELSE DoCall(GatewayPatch(RecordEndpoint(args["base_id"], args["table_id"],
                                                    args["record_id"]),
                                     EmptyDict),
                        "delete", EmptyDict)
    ELSE IF ~reply.ok THEN DoRaise(reply.error)
         ELSE DoReturn(<<JsonText(reply.body)>>)

handle_delete_record(args, label, fr, reply) ==
    IF label = "entry" THEN
        LET missing == FirstMissing(args, <<"base_id", "table_id", "record_id">>)
        IN  IF missing # NoValue THEN DoRaise(KeyErrorStr(missing))
            ELSE DoCall(GatewayDelete(RecordEndpoint(args["base_id"], args["table_id"],
                                                     args["record_id"])),
                        "delete", EmptyDict)
    ELSE \* resumed from gateway.delete
        IF ~reply.ok THEN DoRaise(reply.error)
        ELSE DoReturn(<<JsonText(reply.body)>>)

\* a batch of MAX_BATCH records counted as too large
BatchTooLarge_inclusive(items) == Len(items) >= MAX_BATCH

\* len(records) > 10
BatchTooLarge(items) == Len(items) > MAX_BATCH

\* the error text of the checks on `records`, NoValue when the list passes
BatchFormatError(records) ==
    IF ~Truthy(records) \/ ~IsList(records)
    THEN "Error: 'records' must be a non-empty array"
    ELSE IF BatchTooLarge(records.items)
    THEN "Error: Maximum 10 records per batch operation (Airtable limit)"
    ELSE NoValue

handle_batch_create_records(args, label, fr, reply) ==
    IF label = "entry" THEN
        LET missing == FirstMissing(args, <<"base_id", "table_id", "records">>)
        IN  IF missing # NoValue THEN DoRaise(KeyErrorStr(missing))
            ELSE IF BatchFormatError(args["records"]) # NoValue
            THEN DoReturn(<<Text(BatchFormatError(args["records"]))>>)
            ELSE DoCall(GatewayPost(BatchEndpoint(args["base_id"], args["table_id"]),
                                    [records |-> args["records"].items]),
                        "post", EmptyDict)
    ELSE \* resumed from gateway.post
        IF ~reply.ok THEN DoRaise(reply.error)
        ELSE LET created == Get(reply.body, "records", <<>>)
             IN  DoReturn(<<JsonText(
                     [message |-> "Successfully created " \o ToString(Len(created))
                                      \o " records",
                      created_records |-> created,
                      base_id |-> args["base_id"],
                      table_id |-> args["table_id"]])>>)

\* isinstance(record, dict) and "id" in record and "fields" in record
HasIdAndFields(record) ==
    "nondict" \notin DOMAIN record /\ {"id", "fields"} \subseteq DOMAIN record

\* a batch validation that looks at the first record only
FirstBadRecord_head_only(items) ==
    IF HasIdAndFields(items[1]) THEN -1 ELSE 0

\* the index (from 0, as enumerate counts) of the first record without id
\* and fields, -1 when every record has them
FirstBadRecord(items) ==
    IF \E i \in DOMAIN items : ~HasIdAndFields(items[i])
    THEN (CHOOSE i \in DOMAIN items :
              /\ ~HasIdAndFields(items[i])
              /\ \A j \in 1..(i - 1) : HasIdAndFields(items[j])) - 1
    ELSE -1

\* the PATCH of the i-th record of the batch
BatchPatch(args, i) ==
    GatewayPatch(RecordEndpoint(args["base_id"], args["table_id"],
                                args["records"].items[i]["id"]),
                 args["records"].items[i]["fields"])

\* the response of handle_batch_update_records
BatchUpdateResponse(args, updated_records, errors) ==
    [message |-> "Batch update completed: " \o ToString(Len(updated_records))
                     \o " success, " \o ToString(Len(errors)) \o " errors",
     updated_records |-> updated_records,
     errors |-> errors,
     base_id |-> args["base_id"],
     table_id |-> args["table_id"]]

\* a failed PATCH that leaves no entry in errors
BatchOutcome_swallowed(args, fr, reply) ==
    [updated_records |-> IF reply.ok THEN Append(fr.updated_records, reply.body)
                         ELSE fr.updated_records,
     errors |-> fr.errors]

\* updated_records and errors after the PATCH of record fr.i returned or
\* raised: the try and except of the loop
BatchOutcome(args, fr, reply) ==
    [updated_records |-> IF reply.ok THEN Append(fr.updated_records, reply.body)
                         ELSE fr.updated_records,
     errors |-> IF reply.ok THEN fr.errors
                ELSE Append(fr.errors,
                            [record_id |-> args["records"].items[fr.i]["id"],
                             error |-> reply.error])]

handle_batch_update_records(args, label, fr, reply) ==
    IF label = "entry" THEN
        LET missing == FirstMissing(args, <<"base_id", "table_id", "records">>)
            records == args["records"]
        IN  IF missing # NoValue THEN DoRaise(KeyErrorStr(missing))
            ELSE IF BatchFormatError(records) # NoValue
            THEN DoReturn(<<Text(BatchFormatError(records))>>)
            ELSE IF FirstBadRecord(records.items) # -1
            THEN DoReturn(<<Text("Error: Record " \o ToString(FirstBadRecord(records.items))
                                     \o " must have 'id' and 'fields' properties")>>)
            ELSE DoCall(BatchPatch(args, 1), "patch",
                        [i |-> 1, updated_records |-> <<>>, errors |-> <<>>])
    ELSE \* resumed from the gateway.patch of record fr.i, inside the try
        IF fr.i < Len(args["records"].items)
        THEN DoCall(BatchPatch(args, fr.i + 1), "patch",
                    [i |-> fr.i + 1] @@ BatchOutcome(args, fr, reply))
        ELSE DoReturn(<<JsonText(BatchUpdateResponse(args,
                          BatchOutcome(args, fr, reply).updated_records,
                          BatchOutcome(args, fr, reply).errors))>>)

---------------------------------------------------------------------------
(* Analysis handlers, handlers/analysis_handlers.py *)

\* field_stat of one field; fill_rate and avg_length are in tenths,
\* avg_value in hundredths
FieldStat(field, records) ==
    LET \* float(v) succeeds
        IsNumeric(v) == IsNum(v)
        \* len(str(v)) of a filled value
        StrLen(v) ==
            IF IsStr(v) THEN Len(v.str) ELSE IF IsNum(v) THEN Len(ToString(v.num)) ELSE 0
        \* the values that are neither None nor ""
        Filled(all) == Select(all, {i \in DOMAIN all : ~IsEmptyValue(all[i])})
        \* [len(str(v)) for v in values]
        Lengths(values) == [k \in DOMAIN values |-> StrLen(values[k])]
        \* the values float() accepts, as numbers
        NumberOf(numeric) == [k \in DOMAIN numeric |-> numeric[k].num]
        Numbers(values) ==
            NumberOf(Select(values, {k \in DOMAIN values : IsNumeric(values[k])}))
        \* the set of the values seen in a select field
        UniqueValues(values) ==
            UNION {IF IsJList(values[i])
                   THEN {values[i].list[j] : j \in DOMAIN values[i].list}
                   ELSE {values[i]} : i \in DOMAIN values}
        \* the entries every field_stat has
        BaseStat(total_records, values) ==
            [field_name |-> field["name"],
             field_type |-> field["type"],
             total_records |-> total_records,
             filled_count |-> Len(values),
             empty_count |-> total_records - Len(values),
             fill_rate |-> IF total_records > 0
                           THEN Round(Len(values), total_records, 1000) ELSE 0]
        \* the entries of a text field with values
        TextStat(lengths) ==
            [avg_length |-> Round(Sum(lengths), Len(lengths), 10),
             max_length |-> MaxOf(lengths),
             min_length |-> MinOf(lengths)]
        \* the entries of a number field with numeric values
        NumberStat(numbers) ==
            [avg_value |-> Round(Sum(numbers), Len(numbers), 100),
             max_value |-> MaxOf(numbers),
             min_value |-> MinOf(numbers)]
        \* the entries of a select field
        SelectStat(unique_values) ==
            [unique_values |-> unique_values, unique_count |-> Cardinality(unique_values)]
        \* the entries the field's type adds
        TypeStat(values) ==
            IF field["type"] \in {"singleLineText", "multilineText", "email", "url"}
            THEN IF values # <<>> THEN TextStat(Lengths(values)) ELSE EmptyDict
            ELSE IF field["type"] = "number"
            THEN IF Numbers(values) # <<>> THEN NumberStat(Numbers(values)) ELSE EmptyDict
            ELSE IF field["type"] \in {"singleSelect", "multipleSelect"}
            THEN SelectStat(UniqueValues(values))
            ELSE EmptyDict
        StatOf(total_records, values) == TypeStat(values) @@ BaseStat(total_records, values)
    IN  StatOf(Len(records),
               Filled([i \in DOMAIN records |-> FieldValue(records[i], field["name"])]))

\* insights that count a fill rate of exactly 50 as low completion
generate_data_quality_insights_at_most_half(field_stats, total_records) ==
    LET NamesAt(S) == [k \in 1..Cardinality(S) |-> field_stats[SortedSeq(S)[k]].field_name]
        Insight(names, prefix, suffix) ==
            IF names # <<>> THEN <<prefix \o Join(names, ", ") \o suffix>> ELSE <<>>
        OrGood(insights) ==
            IF insights = <<>>
            THEN <<"Data quality looks good - no major issues detected">>
            ELSE insights
    IN  OrGood(
            Insight(NamesAt({i \in DOMAIN field_stats : field_stats[i].fill_rate <= 500}),
                    "Low data completion: ", " have <50% fill rate")
            \o Insight(NamesAt({i \in DOMAIN field_stats : field_stats[i].fill_rate = 0}),
                       "Unused fields: ", " are completely empty")
            \o Insight(NamesAt({i \in DOMAIN field_stats : field_stats[i].fill_rate = 1000}),
                       "Complete data: ", " have 100% fill rate"))

\* _generate_data_quality_insights; a fill rate of 50 is 500 tenths
generate_data_quality_insights(field_stats, total_records) ==
    LET \* the names of the fields at the indices of S, in field order
        NamesAt(S) == [k \in 1..Cardinality(S) |-> field_stats[SortedSeq(S)[k]].field_name]
        \* one insight, if it names a field
        Insight(names, prefix, suffix) ==
            IF names # <<>> THEN <<prefix \o Join(names, ", ") \o suffix>> ELSE <<>>
        OrGood(insights) ==
            IF insights = <<>>
            THEN <<"Data quality looks good - no major issues detected">>
            ELSE insights
    IN  OrGood(
            Insight(NamesAt({i \in DOMAIN field_stats : field_stats[i].fill_rate < 500}),
                    "Low data completion: ", " have <50% fill rate")
            \o Insight(NamesAt({i \in DOMAIN field_stats : field_stats[i].fill_rate = 0}),
                       "Unused fields: ", " are completely empty")
            \o Insight(NamesAt({i \in DOMAIN field_stats : field_stats[i].fill_rate = 1000}),
                       "Complete data: ", " have 100% fill rate"))

\* the response of handle_analyze_table_data; field_analysis is kept as the
\* sequence of the field statistics in field order
AnalysisResponse(target_table, records) ==
    LET FillRates(field_stats) == [i \in DOMAIN field_stats |-> field_stats[i].fill_rate]
        Of(fields, field_stats) ==
            [table_name |-> target_table["name"],
             analysis_summary |->
                 [records_analyzed |-> Len(records),
                  total_fields |-> Len(fields),
                  avg_fill_rate |-> IF field_stats # <<>>
                                    THEN Round(Sum(FillRates(field_stats)), Len(field_stats), 1)
                                    ELSE 0],
             field_analysis |-> field_stats,
             data_quality_insights |->
                 generate_data_quality_insights(field_stats, Len(records))]
        StatsOf(fields) == Of(fields, [i \in DOMAIN fields |-> FieldStat(fields[i], records)])
    IN  StatsOf(Get(target_table, "fields", <<>>))

\* arguments.get("sample_size", 100)
SAMPLE_DEFAULT == 100
\* min(sample_size, 100)
SAMPLE_CAP == 100

handle_analyze_table_data(args, label, fr, reply) ==
    IF label = "entry" THEN
        LET missing == FirstMissing(args, <<"base_id", "table_id">>)
        IN  IF missing # NoValue THEN DoRaise(KeyErrorStr(missing))
            ELSE DoCall(GatewayGet(SchemaEndpoint(args["base_id"]), EmptyDict),
                        "schema", EmptyDict)
    ELSE IF label = "schema" THEN
        IF ~reply.ok THEN DoRaise(reply.error)
        ELSE LET tables == Get(reply.body, "tables", <<>>)
                 found == FindTable(tables, args["table_id"])
                 sample_size == Get(args, "sample_size", SAMPLE_DEFAULT)
             IN  IF found.op = "raise" THEN DoRaise(found.exc)
                 ELSE IF found.op = "missing"
                 THEN DoReturn(<<Text("Error: Table '" \o args["table_id"] \o "' not found")>>)
                 ELSE DoCall(GatewayGet(RecordsEndpoint(args["base_id"], args["table_id"]),
                                 [max_records |-> Min2(sample_size, SAMPLE_CAP)]),
                             "records", [target_table |-> tables[found.index]])
    ELSE \* resumed from gateway.get(records)
        IF ~reply.ok THEN DoRaise(reply.error)
        ELSE LET records == Get(reply.body, "records", <<>>)
             IN  IF records = <<>>
                 THEN DoReturn(<<Text("No records found in table")>>)
                 ELSE DoReturn(<<JsonText(AnalysisResponse(fr.target_table, records))>>)

\* value.strip().lower()
StripLower(str) == Lower(Strip(str))

\* the value of a compared field as it enters the key
NormalizeValue(v) == IF IsStr(v) THEN JStr(StripLower(v.str)) ELSE v

\* skip_record: with ignore_empty, some compared field is None or ""
SkipRecord(record, fields, ignore_empty) ==
    ignore_empty /\ \E k \in DOMAIN fields : IsEmptyValue(FieldValue(record, fields[k]))

\* key = tuple(values)
DuplicateKey(record, fields) ==
    [k \in DOMAIN fields |-> NormalizeValue(FieldValue(record, fields[k]))]

\* dict(zip(fields, key)): a field named twice keeps its last value
ZipDict(fields, key) ==
    [f \in {fields[k] : k \in DOMAIN fields} |->
        key[CHOOSE k \in DOMAIN fields :
                fields[k] = f /\ \A m \in DOMAIN fields : fields[m] = f => m <= k]]

\* `key not in value_groups` hashes the key: a record that is not skipped
\* and holds a list in a compared field makes it raise TypeError
UnhashableKey(args, records) ==
    \E i \in DOMAIN records :
        /\ ~SkipRecord(records[i], args["fields"], Get(args, "ignore_empty", TRUE))
        /\ \E k \in DOMAIN args["fields"] : IsJList(FieldValue(records[i], args["fields"][k]))

\* the records max_records=1000 asks for
DUPLICATE_SCAN_LIMIT == 1000

\* the report with the groups of one record too
DuplicatesResponse_singletons(args, records) ==
    LET fields == args["fields"]
        ignore_empty == Get(args, "ignore_empty", TRUE)
        kept == {i \in DOMAIN records : ~SkipRecord(records[i], fields, ignore_empty)}
        key(i) == DuplicateKey(records[i], fields)
        group(i) == {j \in kept : key(j) = key(i)}
        \* the first record of every group
        leaders == {i \in kept : Cardinality(group(i)) > 0
                                 /\ \A j \in group(i) : i <= j}
        duplicate_group(i) ==
            [duplicate_values |-> ZipDict(fields, key(i)),
             record_count |-> Cardinality(group(i)),
             records |-> [k \in 1..Cardinality(group(i)) |->
                 LET record == records[SortedSeq(group(i))[k]]
                 IN  [id |-> record["id"],
                      fields |-> [f \in {fields[m] : m \in DOMAIN fields} |->
                                     FieldValue(record, f)],
                      created_time |-> Get(record, "createdTime", NoValue)]]]
        duplicates == [k \in 1..Cardinality(leaders) |->
                          duplicate_group(SortedSeq(leaders)[k])]
    IN  [table_id |-> args["table_id"],
         duplicate_check_fields |-> fields,
         total_records_checked |-> Len(records),
         duplicate_groups_found |-> Len(duplicates),
         total_duplicate_records |->
             Sum([k \in DOMAIN duplicates |-> Len(duplicates[k].records)]),
         duplicates |-> duplicates]

\* the response of handle_find_duplicates: value_groups keeps its keys in
\* the order they were first seen, each group its records in fetch order
DuplicatesResponse(args, records) ==
    LET fields == args["fields"]
        ignore_empty == Get(args, "ignore_empty", TRUE)
        kept == {i \in DOMAIN records : ~SkipRecord(records[i], fields, ignore_empty)}
        key(i) == DuplicateKey(records[i], fields)
        group(i) == {j \in kept : key(j) = key(i)}
        \* the first record of every group with more than one member
        leaders == {i \in kept : Cardinality(group(i)) > 1
                                 /\ \A j \in group(i) : i <= j}
        duplicate_group(i) ==
            [duplicate_values |-> ZipDict(fields, key(i)),
             record_count |-> Cardinality(group(i)),
             records |-> [k \in 1..Cardinality(group(i)) |->
                 LET record == records[SortedSeq(group(i))[k]]
                 IN  [id |-> record["id"],
                      fields |-> [f \in {fields[m] : m \in DOMAIN fields} |->
                                     FieldValue(record, f)],
                      created_time |-> Get(record, "createdTime", NoValue)]]]
        duplicates == [k \in 1..Cardinality(leaders) |->
                          duplicate_group(SortedSeq(leaders)[k])]
    IN  [table_id |-> args["table_id"],
         duplicate_check_fields |-> fields,
         total_records_checked |-> Len(records),
         duplicate_groups_found |-> Len(duplicates),
         total_duplicate_records |->
             Sum([k \in DOMAIN duplicates |-> Len(duplicates[k].records)]),
         duplicates |-> duplicates]

handle_find_duplicates(args, label, fr, reply) ==
    IF label = "entry" THEN
        LET missing == FirstMissing(args, <<"base_id", "table_id", "fields">>)
        IN  IF missing # NoValue THEN DoRaise(KeyErrorStr(missing))
            ELSE DoCall(GatewayGet(RecordsEndpoint(args["base_id"], args["table_id"]),
                            [max_records |-> DUPLICATE_SCAN_LIMIT]),
                        "records", EmptyDict)
    ELSE \* resumed from gateway.get(records)
        IF ~reply.ok THEN DoRaise(reply.error)
        ELSE LET records == Get(reply.body, "records", <<>>)
             IN  IF records = <<>>
                 THEN DoReturn(<<Text("No records found in table")>>)
                 ELSE IF UnhashableKey(args, records)
                 THEN DoRaise("unhashable type: 'list'")
                 ELSE DoReturn(<<JsonText(DuplicatesResponse(args, records))>>)

---------------------------------------------------------------------------
(* Utility handlers, handlers/utility_handlers.py *)

\* arguments.get("max_records", 50) of handle_search_records
SEARCH_MAX_RECORDS == 50

\* the fallback of handle_search_records: the formula built by hand from
\* the raw query and field names
InsecureSearchFormula(query, fields) ==
    LET conditions == [i \in DOMAIN fields |->
            "FIND(LOWER('" \o query \o "'), LOWER({" \o fields[i] \o "})) > 0"]
    IN  IF fields # <<>>
        THEN "OR(" \o Join(conditions, ", ") \o ")"
        ELSE "SEARCH(LOWER('" \o query \o "'), LOWER(CONCATENATE(VALUES())))"

\* the GET of handle_search_records with the formula it settled on
SearchCall(args, filter_formula) ==
    GatewayGet(RecordsEndpoint(args["base_id"], args["table_id"]),
               [filter_by_formula |-> filter_formula,
                max_records |-> Get(args, "max_records", SEARCH_MAX_RECORDS)])

\* the formula built by hand whether or not the security module is there
SearchFormula_interpolated(query, fields) ==
    FormulaOk(InsecureSearchFormula(query, fields))

\* filter_formula of handle_search_records: built by the security module,
\* or, without it, by hand
SearchFormula(query, fields) ==
    IF SECURITY_AVAILABLE THEN build_safe_search_formula(query, fields)
    ELSE FormulaOk(InsecureSearchFormula(query, fields))

\* the step of handle_search_records once the formula was built
SearchStep(args, built) ==
    IF built.raised
    THEN DoReturn(<<Text("Security Error: " \o built.error)>>)
    ELSE DoCall(SearchCall(args, built.value), "records", EmptyDict)

handle_search_records(args, label, fr, reply) ==
    IF label = "entry" THEN
        IF FirstMissing(args, <<"base_id", "table_id", "query">>) # NoValue
        THEN DoRaise(KeyErrorStr(FirstMissing(args, <<"base_id", "table_id", "query">>)))
        ELSE SearchStep(args, SearchFormula(args["query"], Get(args, "fields", <<>>)))
    ELSE \* resumed from gateway.get(records)
        IF ~reply.ok THEN DoRaise(reply.error)
        ELSE DoReturn(<<JsonText(reply.body)>>)

\* arguments.get("max_records", 1000) of handle_export_table_csv
EXPORT_MAX_RECORDS == 1000
\* csv_content.split("\n")[:6]
PREVIEW_LINES == 6

\* the keys of a field map in the order the gateway's JSON lists them: the
\* field maps of the model list their keys in this order
FieldOrder == <<"Name", "Email", "Status", "Key", "Amount">>
DictKeys(d) == Select(FieldOrder, {i \in DOMAIN FieldOrder : FieldOrder[i] \in DOMAIN d})

\* str(v) of a JSON value that is no list
PyStr(v) ==
    IF IsStr(v) THEN v.str
    ELSE IF IsNum(v) THEN ToString(v.num)
    ELSE "None"

\* the cell of a field value
CellValue(v) ==
    IF IsJList(v) THEN Join([i \in DOMAIN v.list |-> PyStr(v.list[i])], ", ")
    ELSE IF v = JNull THEN ""
    ELSE PyStr(v)

\* csv.writer's quoting of one cell: a cell with a comma, a quote or a
\* line break is put in quotes, its quotes doubled
RECURSIVE DoubleQuotesFrom(_, _)
DoubleQuotesFrom(str, i) ==
    IF i > Len(str) THEN ""
    ELSE (IF SubSeq(str, i, i) = "\"" THEN "\"\"" ELSE SubSeq(str, i, i))
             \o DoubleQuotesFrom(str, i + 1)

DoubleQuotes(str) == DoubleQuotesFrom(str, 1)

\* a writer that quotes nothing
CsvCell_unquoted(str) == str

CsvCell(str) ==
    IF \E c \in {",", "\"", "\r", "\n"} : Contains(c, str)
    THEN "\"" \o DoubleQuotes(str) \o "\""
    ELSE str

\* writer.writerow(row)
CsvLine(row) == Join([i \in DOMAIN row |-> CsvCell(row[i])], ",") \o "\r\n"

\* "\n".join(text.split("\n")[:n]): text up to its n-th line feed
FirstLines(text, n) ==
    LET feeds == {i \in 1..Len(text) : SubSeq(text, i, i) = "\n"}
        cut == {i \in feeds : Cardinality({j \in feeds : j <= i}) = n}
    IN  IF cut = {} THEN text
        ELSE SubSeq(text, 1, (CHOOSE i \in cut : TRUE) - 1)

\* the fields exported: those asked for, or the keys of the first record
ExportFields(args, records) ==
    IF "fields" \in DOMAIN args /\ args["fields"] # <<>>
    THEN args["fields"]
    ELSE DictKeys(Get(records[1], "fields", EmptyDict))

\* the rows written, the header first, each a sequence of cells
ExportRows(fields, records) ==
    <<(<<"Record ID">> \o fields \o <<"Created Time">>)>>
    \o [r \in DOMAIN records |->
           <<records[r]["id"]>>
           \o [k \in DOMAIN fields |->
                  CellValue(Get(Get(records[r], "fields", EmptyDict), fields[k], JStr("")))]
           \o <<Get(records[r], "createdTime", "")>>]

ExportResponse(args, records) ==
    LET fields == ExportFields(args, records)
        rows == ExportRows(fields, records)
        csv_content == Join([i \in DOMAIN rows |-> CsvLine(rows[i])], "")
    IN  [message |-> "Exported " \o ToString(Len(records)) \o " records to CSV",
         table_id |-> args["table_id"],
         fields_exported |-> fields,
         record_count |-> Len(records),
         csv_preview |-> FirstLines(csv_content, PREVIEW_LINES),
         full_csv_data |-> csv_content]

handle_export_table_csv(args, label, fr, reply) ==
    IF label = "entry" THEN
        LET missing == FirstMissing(args, <<"base_id", "table_id">>)
            max_records == [max_records |-> Get(args, "max_records", EXPORT_MAX_RECORDS)]
            params == IF "view" \in DOMAIN args /\ args["view"] # ""
                      THEN [view |-> args["view"]] @@ max_records
                      ELSE max_records
        IN  IF missing # NoValue THEN DoRaise(KeyErrorStr(missing))
            ELSE DoCall(GatewayGet(RecordsEndpoint(args["base_id"], args["table_id"]), params),
                        "records", EmptyDict)
    ELSE \* resumed from gateway.get(records)
        IF ~reply.ok THEN DoRaise(reply.error)
        ELSE LET records == Get(reply.body, "records", <<>>)
             IN  IF records = <<>>
                 THEN DoReturn(<<Text("No records found to export")>>)
                 ELSE DoReturn(<<JsonText(ExportResponse(args, records))>>)

\* the records handle_sync_tables asks each side for
SYNC_MAX_RECORDS == 1000
\* the entries of each change list shown in the plan
SYNC_SHOWN == 5

\* bool(key_value): None, "", 0 and [] are false
KeyTruthy(v) ==
    /\ v # JNull
    /\ v # JStr("")
    /\ v # JNum(0)
    /\ v # JList(<<>>)

\* seq[:n]
Take(seq, n) == SubSeq(seq, 1, Min2(n, Len(seq)))

\* to_delete holding every key of target_index, those of the source too
SyncLists_delete_all(key_field, source_records, target_records) ==
    LET \* str(key_value) of every record
        KeyStrs(records) ==
            [i \in DOMAIN records |-> PyStr(FieldValue(records[i], key_field))]
        \* the records whose key_value is truthy
        Keyed(records) ==
            {i \in DOMAIN records : KeyTruthy(FieldValue(records[i], key_field))}
        \* key_str in target_index
        InIndex(tkeys, keyed_t, key_str) == \E j \in keyed_t : tkeys[j] = key_str
        \* target_index[key_str]: the last target record with the key
        LastWith(tkeys, keyed_t, key_str) ==
            CHOOSE j \in keyed_t :
                tkeys[j] = key_str /\ \A m \in keyed_t : tkeys[m] = key_str => m <= j
        \* the source records appended to to_create
        Creates(skeys, keyed_s, tkeys, keyed_t) ==
            {i \in keyed_s : ~InIndex(tkeys, keyed_t, skeys[i])}
        \* the source records appended to to_update
        Updates(skeys, keyed_s, tkeys, keyed_t) ==
            {i \in keyed_s :
                /\ InIndex(tkeys, keyed_t, skeys[i])
                /\ source_records[i]["fields"]
                       # target_records[LastWith(tkeys, keyed_t, skeys[i])]["fields"]}
        \* every key of target_index, each at the target record that first
        \* had it
        Deletes(skeys, keyed_s, tkeys, keyed_t) ==
            {i \in keyed_t : \A m \in keyed_t : tkeys[m] = tkeys[i] => i <= m}
        UpdateEntries(skeys, tkeys, keyed_t, order) ==
            [k \in DOMAIN order |->
                [source_record |-> source_records[order[k]],
                 target_record |-> target_records[LastWith(tkeys, keyed_t, skeys[order[k]])],
                 key_value |-> FieldValue(source_records[order[k]], key_field)]]
        DeleteEntries(tkeys, keyed_t, order) ==
            [k \in DOMAIN order |->
                target_records[LastWith(tkeys, keyed_t, tkeys[order[k]])]]
        Of(skeys, keyed_s, tkeys, keyed_t) ==
            [to_create |-> Select(source_records, Creates(skeys, keyed_s, tkeys, keyed_t)),
             to_update |-> UpdateEntries(skeys, tkeys, keyed_t,
                               SortedSeq(Updates(skeys, keyed_s, tkeys, keyed_t))),
             to_delete |-> DeleteEntries(tkeys, keyed_t,
                               SortedSeq(Deletes(skeys, keyed_s, tkeys, keyed_t)))]
    IN  Of(KeyStrs(source_records), Keyed(source_records),
           KeyStrs(target_records), Keyed(target_records))

\* to_create, to_update and to_delete of handle_sync_tables
SyncLists(key_field, source_records, target_records) ==
    LET \* str(key_value) of every record
        KeyStrs(records) ==
            [i \in DOMAIN records |-> PyStr(FieldValue(records[i], key_field))]
        \* the records whose key_value is truthy
        Keyed(records) ==
            {i \in DOMAIN records : KeyTruthy(FieldValue(records[i], key_field))}
        \* key_str in target_index
        InIndex(tkeys, keyed_t, key_str) == \E j \in keyed_t : tkeys[j] = key_str
        \* target_index[key_str]: the last target record with the key
        LastWith(tkeys, keyed_t, key_str) ==
            CHOOSE j \in keyed_t :
                tkeys[j] = key_str /\ \A m \in keyed_t : tkeys[m] = key_str => m <= j
        \* the source records appended to to_create
        Creates(skeys, keyed_s, tkeys, keyed_t) ==
            {i \in keyed_s : ~InIndex(tkeys, keyed_t, skeys[i])}
        \* the source records appended to to_update
        Updates(skeys, keyed_s, tkeys, keyed_t) ==
            {i \in keyed_s :
                /\ InIndex(tkeys, keyed_t, skeys[i])
                /\ source_records[i]["fields"]
                       # target_records[LastWith(tkeys, keyed_t, skeys[i])]["fields"]}
        \* the keys of target_index no source record has, each at the target
        \* record that first had it: target_index keeps insertion order
        Deletes(skeys, keyed_s, tkeys, keyed_t) ==
            {i \in keyed_t : /\ \A m \in keyed_t : tkeys[m] = tkeys[i] => i <= m
                             /\ \A j \in keyed_s : skeys[j] # tkeys[i]}
        UpdateEntries(skeys, tkeys, keyed_t, order) ==
            [k \in DOMAIN order |->
                [source_record |-> source_records[order[k]],
                 target_record |-> target_records[LastWith(tkeys, keyed_t, skeys[order[k]])],
                 key_value |-> FieldValue(source_records[order[k]], key_field)]]
        DeleteEntries(tkeys, keyed_t, order) ==
            [k \in DOMAIN order |->
                target_records[LastWith(tkeys, keyed_t, tkeys[order[k]])]]
        Of(skeys, keyed_s, tkeys, keyed_t) ==
            [to_create |-> Select(source_records, Creates(skeys, keyed_s, tkeys, keyed_t)),
             to_update |-> UpdateEntries(skeys, tkeys, keyed_t,
                               SortedSeq(Updates(skeys, keyed_s, tkeys, keyed_t))),
             to_delete |-> DeleteEntries(tkeys, keyed_t,
                               SortedSeq(Deletes(skeys, keyed_s, tkeys, keyed_t)))]
    IN  Of(KeyStrs(source_records), Keyed(source_records),
           KeyStrs(target_records), Keyed(target_records))

\* sync_plan, the response of handle_sync_tables
SyncPlan(args, source_records, target_records) ==
    LET \* the entries of sync_plan["changes"]
        CreateShown(key_field, shown) ==
            [k \in DOMAIN shown |->
                [key |-> FieldValue(shown[k], key_field), fields |-> shown[k]["fields"]]]
        UpdateShown(shown) ==
            [k \in DOMAIN shown |->
                [key |-> shown[k].key_value, changes |-> "Field differences detected"]]
        DeleteShown(key_field, shown) ==
            [k \in DOMAIN shown |->
                [key |-> FieldValue(shown[k], key_field), id |-> shown[k]["id"]]]
        Of(key_field, dry_run, lists) ==
            [sync_summary |->
                 [source_records |-> Len(source_records),
                  target_records |-> Len(target_records),
                  records_to_create |-> Len(lists.to_create),
                  records_to_update |-> Len(lists.to_update),
                  records_to_delete |-> Len(lists.to_delete)],
             key_field |-> key_field,
             dry_run |-> dry_run,
             changes |->
                 [create |-> CreateShown(key_field, Take(lists.to_create, SYNC_SHOWN)),
                  update |-> UpdateShown(Take(lists.to_update, SYNC_SHOWN)),
                  delete |-> DeleteShown(key_field, Take(lists.to_delete, SYNC_SHOWN))],
             message |-> IF dry_run
                         THEN "Dry run completed - no changes made. Set dry_run=false to execute sync."
                         ELSE "Sync feature not yet implemented for safety - use dry_run=true to preview changes."]
    IN  Of(args["key_field"], Get(args, "dry_run", TRUE),
           SyncLists(args["key_field"], source_records, target_records))

\* a sync that writes the plan's creations to the target when dry_run is
\* false
handle_sync_tables_executing(args, label, fr, reply) ==
    IF label = "entry" THEN
        LET missing == FirstMissing(args, <<"source_base_id", "source_table_id",
                                           "target_base_id", "target_table_id", "key_field">>)
        IN  IF missing # NoValue THEN DoRaise(KeyErrorStr(missing))
            ELSE DoCall(GatewayGet(RecordsEndpoint(args["source_base_id"],
                                                   args["source_table_id"]),
                                   [max_records |-> SYNC_MAX_RECORDS]),
                        "source", EmptyDict)
    ELSE IF label = "source" THEN
        IF ~reply.ok THEN DoRaise(reply.error)
        ELSE DoCall(GatewayGet(RecordsEndpoint(args["target_base_id"],
                                               args["target_table_id"]),
                               [max_records |-> SYNC_MAX_RECORDS]),
                    "target", [source_records |-> Get(reply.body, "records", <<>>)])
    ELSE IF label = "target" THEN
        IF ~reply.ok THEN DoRaise(reply.error)
        ELSE IF ~Get(args, "dry_run", TRUE)
        THEN DoCall(GatewayPost(BatchEndpoint(args["target_base_id"],
                                              args["target_table_id"]),
                                [records |-> <<>>]),
                    "write", fr)
        ELSE DoReturn(<<JsonText(SyncPlan(args, fr.source_records,
                                          Get(reply.body, "records", <<>>)))>>)
    ELSE \* resumed from the write
        IF ~reply.ok THEN DoRaise(reply.error)
        ELSE DoReturn(<<Text("Sync executed")>>)

handle_sync_tables(args, label, fr, reply) ==
    IF label = "entry" THEN
        LET missing == FirstMissing(args, <<"source_base_id", "source_table_id",
                                           "target_base_id", "target_table_id", "key_field">>)
        IN  IF missing # NoValue THEN DoRaise(KeyErrorStr(missing))
            ELSE DoCall(GatewayGet(RecordsEndpoint(args["source_base_id"],
                                                   args["source_table_id"]),
                                   [max_records |-> SYNC_MAX_RECORDS]),
                        "source", EmptyDict)
    ELSE IF label = "source" THEN
        IF ~reply.ok THEN DoRaise(reply.error)
        ELSE DoCall(GatewayGet(RecordsEndpoint(args["target_base_id"],
                                               args["target_table_id"]),
                               [max_records |-> SYNC_MAX_RECORDS]),
                    "target", [source_records |-> Get(reply.body, "records", <<>>)])
    ELSE \* resumed from gateway.get(target records)
        IF ~reply.ok THEN DoRaise(reply.error)
        ELSE DoReturn(<<JsonText(SyncPlan(args, fr.source_records,
                                          Get(reply.body, "records", <<>>)))>>)

\* arguments.get("table_name", "Table Metadata")
DefaultMetadataName == "Table Metadata"
\* batch_size of handle_create_metadata_table
METADATA_BATCH == 10
\* fields[:3], the "Primary Fields" of a metadata record
PRIMARY_FIELDS == 3

\* any(word in text for word in words)
AnyIn(words, text) == \E w \in words : Contains(w, text)

\* the field names tested before the table name
infer_table_purpose_fields_first(table_name, fields) ==
    LET name_lower == Lower(table_name)
        field_names == {Lower(Get(fields[i], "name", "")) : i \in DOMAIN fields}
    IN  IF {"email", "phone", "address"} \cap field_names # {}
        THEN "Contact Information"
        ELSE IF {"price", "cost", "amount", "budget"} \cap field_names # {}
        THEN "Financial/Budget Tracking"
        ELSE IF AnyIn({"project", "task", "todo"}, name_lower)
        THEN "Project/Task Management"
        ELSE IF AnyIn({"contact", "people", "user", "client"}, name_lower)
        THEN "Contact/People Management"
        ELSE IF AnyIn({"product", "inventory", "item"}, name_lower)
        THEN "Product/Inventory Tracking"
        ELSE IF AnyIn({"event", "calendar", "schedule"}, name_lower)
        THEN "Event/Schedule Management"
        ELSE "General Data Storage"

\* _infer_table_purpose
infer_table_purpose(table_name, fields) ==
    LET name_lower == Lower(table_name)
        field_names == {Lower(Get(fields[i], "name", "")) : i \in DOMAIN fields}
    IN  IF AnyIn({"project", "task", "todo"}, name_lower)
        THEN "Project/Task Management"
        ELSE IF AnyIn({"contact", "people", "user", "client"}, name_lower)
        THEN "Contact/People Management"
        ELSE IF AnyIn({"product", "inventory", "item"}, name_lower)
        THEN "Product/Inventory Tracking"
        ELSE IF AnyIn({"event", "calendar", "schedule"}, name_lower)
        THEN "Event/Schedule Management"
        ELSE IF {"email", "phone", "address"} \cap field_names # {}
        THEN "Contact Information"
        ELSE IF {"price", "cost", "amount", "budget"} \cap field_names # {}
        THEN "Financial/Budget Tracking"
        ELSE "General Data Storage"

\* _categorize_tables: how many tables have each purpose
categorize_tables(tables) ==
    LET purpose(i) == infer_table_purpose(tables[i]["name"], Get(tables[i], "fields", <<>>))
    IN  [p \in {purpose(i) : i \in DOMAIN tables} |->
            Cardinality({i \in DOMAIN tables : purpose(i) = p})]

\* "Field Types": the types in the order first seen, each with its count
FieldTypesText(fields) ==
    LET type(i) == Get(fields[i], "type", "unknown")
        first == {i \in DOMAIN fields : \A j \in 1..(i - 1) : type(j) # type(i)}
    IN  Join([k \in 1..Cardinality(first) |->
                 LET i == SortedSeq(first)[k]
                 IN  type(i) \o ": "
                         \o ToString(Cardinality({j \in DOMAIN fields : type(j) = type(i)}))],
             ", ")

\* str(datetime.now().strftime(...)): the clock's reading during the call
AnalysisDate == "2024-01-01 00:00:00"

\* the metadata record of one table
MetadataRecord(table) ==
    LET fields == Get(table, "fields", <<>>)
        first3 == Take(fields, PRIMARY_FIELDS)
    IN  ("Table Name" :> table["name"])
        @@ ("Table ID" :> table["id"])
        @@ ("Description" :> IF Get(table, "description", "") = ""
                             THEN "No description" ELSE table["description"])
        @@ ("Field Count" :> Len(fields))
        @@ ("View Count" :> Len(Get(table, "views", <<>>)))
        @@ ("Field Types" :> FieldTypesText(fields))
        @@ ("Primary Fields" :> Join([i \in DOMAIN first3 |-> first3[i]["name"]], ", "))
        @@ ("Purpose" :> infer_table_purpose(table["name"], fields))
        @@ ("Analysis Date" :> AnalysisDate)

\* the first table, in schema order, whose name contains table_name or
\* "metadata", case-insensitively; 0 when there is none
FindMetadataTable(tables, table_name) ==
    LET hit(i) == \/ Contains(Lower(table_name), Lower(tables[i]["name"]))
                  \/ Contains("metadata", Lower(tables[i]["name"]))
    IN  IF \E i \in DOMAIN tables : hit(i)
        THEN CHOOSE i \in DOMAIN tables : hit(i) /\ \A j \in 1..(i - 1) : ~hit(j)
        ELSE 0

\* metadata_summary
MetadataSummary(tables) ==
    [total_tables_analyzed |-> Len(tables),
     total_fields |-> Sum([i \in DOMAIN tables |-> Len(Get(tables[i], "fields", <<>>))]),
     table_types |-> categorize_tables(tables)]

\* the names of field_definitions, the fields of the table created
MetadataFieldNames ==
    <<"Table Name", "Table ID", "Description", "Field Count", "View Count",
      "Field Types", "Primary Fields", "Purpose", "Analysis Date">>

WebTablesEndpoint(base_id) == "/api/web/bases/" \o base_id \o "/tables"

\* table_create_data
TableCreateData(table_name) ==
    [name |-> table_name,
     description |-> "Automatically generated metadata analysis of all tables in this base",
     fields |-> MetadataFieldNames]

\* the batch POST that carries all the records from index i on
MetadataBatchPost_whole(base_id, table_id, metadata_records, i) ==
    LET batch == SubSeq(metadata_records, i, Len(metadata_records))
    IN  GatewayPost(BatchEndpoint(base_id, table_id),
                    [records |-> [k \in DOMAIN batch |-> [fields |-> batch[k]]]])

\* the batch POST of the metadata records from index i (from 1) on
MetadataBatchPost(base_id, table_id, metadata_records, i) ==
    LET batch == SubSeq(metadata_records, i, Min2(i + METADATA_BATCH - 1, Len(metadata_records)))
    IN  GatewayPost(BatchEndpoint(base_id, table_id),
                    [records |-> [k \in DOMAIN batch |-> [fields |-> batch[k]]]])

\* the payload of the handler's outer except
MetadataError(args, msg) ==
    [success |-> FALSE,
     error |-> "Error creating metadata table: " \o msg,
     base_id |-> args["base_id"],
     requested_table_name |-> Get(args, "table_name", DefaultMetadataName)]

\* the payload after the records went into an existing metadata table
MetadataExistingResult(args, fr, created_records) ==
    [success |-> TRUE,
     message |-> "Successfully created " \o ToString(Len(created_records))
                     \o " metadata records in existing table '" \o fr.table_name \o "'",
     table_id |-> fr.table_id,
     table_name |-> fr.table_name,
     table_url |-> "https://airtable.com/" \o args["base_id"] \o "/" \o fr.table_id,
     records_created |-> Len(created_records),
     metadata_summary |-> MetadataSummary(fr.tables)]

\* the payload after a new metadata table was created and filled
MetadataCreatedResult(args, fr, new_table_id, created_records) ==
    LET table_name == Get(args, "table_name", DefaultMetadataName)
    IN  [success |-> TRUE,
         message |-> "Successfully created new metadata table '" \o table_name
                         \o "' with " \o ToString(Len(created_records)) \o " records",
         table_id |-> new_table_id,
         table_name |-> table_name,
         table_url |-> "https://airtable.com/" \o args["base_id"] \o "/" \o new_table_id,
         records_created |-> Len(created_records),
         table_created |-> TRUE,
         metadata_summary |-> MetadataSummary(fr.tables)]

\* the inner except answering like the outer one, without the prepared
\* records
MetadataFallback_unprepared(args, fr, web_api_error) ==
    MetadataError(args, web_api_error)

\* the payload of the inner except: the instructions to create the table
\* by hand
MetadataFallback(args, fr, web_api_error) ==
    LET table_name == Get(args, "table_name", DefaultMetadataName)
    IN  [success |-> FALSE,
         message |-> "Web API table creation failed. Error: " \o web_api_error,
         action_required |-> "MANUAL_TABLE_CREATION",
         suggested_table_name |-> table_name,
         suggested_fields |-> MetadataFieldNames,
         prepared_records |-> fr.metadata_records,
         records_ready |-> Len(fr.metadata_records),
         web_api_error |-> web_api_error,
         metadata_summary |-> MetadataSummary(fr.tables),
         fallback_instructions |->
             <<"1. Go to your Airtable base: https://airtable.com/" \o args["base_id"],
               "2. Create a new table named '" \o table_name \o "'",
               "3. Add the fields listed in 'suggested_fields' with their specified types",
               "4. Run this tool again to populate the table with metadata">>]

handle_create_metadata_table(args, label, fr, reply) ==
    IF label = "entry" THEN
        IF "base_id" \notin DOMAIN args THEN DoRaise(KeyErrorStr("base_id"))
        ELSE DoCall(GatewayGet(SchemaEndpoint(args["base_id"]), EmptyDict),
                    "schema", EmptyDict)
    ELSE IF label = "schema" THEN
        IF ~reply.ok THEN DoReturn(<<JsonText(MetadataError(args, reply.error))>>)
        ELSE LET tables == Get(reply.body, "tables", <<>>)
                 table_name == Get(args, "table_name", DefaultMetadataName)
                 bad == {i \in DOMAIN tables : ~({"name", "id"} \subseteq DOMAIN tables[i])}
                 metadata_records == [i \in DOMAIN tables |-> MetadataRecord(tables[i])]
                 existing == FindMetadataTable(tables, table_name)
             IN  IF bad # {}
                 THEN DoReturn(<<JsonText(MetadataError(args,
                          KeyErrorStr(FirstMissing(tables[SortedSeq(bad)[1]],
                                                   <<"name", "id">>))))>>)
                 ELSE IF existing # 0
                 THEN DoCall(MetadataBatchPost(args["base_id"], tables[existing]["id"],
                                               metadata_records, 1),
                             "existing_batch",
                             [tables |-> tables, metadata_records |-> metadata_records,
                              table_id |-> tables[existing]["id"],
                              table_name |-> tables[existing]["name"],
                              i |-> 1, created_records |-> <<>>])
                 ELSE DoCall(GatewayPost(WebTablesEndpoint(args["base_id"]),
                                         TableCreateData(table_name)),
                             "create_table",
                             [tables |-> tables, metadata_records |-> metadata_records])
    ELSE IF label = "existing_batch" THEN
        IF ~reply.ok THEN DoReturn(<<JsonText(MetadataError(args, reply.error))>>)
        ELSE LET created_records == fr.created_records \o Get(reply.body, "records", <<>>)
                 next == fr.i + METADATA_BATCH
             IN  IF next <= Len(fr.metadata_records)
                 THEN DoCall(MetadataBatchPost(args["base_id"], fr.table_id,
                                               fr.metadata_records, next),
                             "existing_batch",
                             [fr EXCEPT !.i = next, !.created_records = created_records])
                 ELSE DoReturn(<<JsonText(MetadataExistingResult(args, fr, created_records))>>)
    ELSE IF label = "create_table" THEN
        IF ~reply.ok THEN DoReturn(<<JsonText(MetadataFallback(args, fr, reply.error))>>)
        ELSE LET new_table_id == Get(reply.body, "id", "None")
             IN  IF fr.metadata_records = <<>>
                 THEN DoReturn(<<JsonText(MetadataCreatedResult(args, fr, new_table_id, <<>>))>>)
                 ELSE DoCall(MetadataBatchPost(args["base_id"], new_table_id,
                                               fr.metadata_records, 1),
                             "new_batch",
                             [tables |-> fr.tables, metadata_records |-> fr.metadata_records,
                              table_id |-> new_table_id,
                              i |-> 1, created_records |-> <<>>])
    ELSE \* resumed from a batch POST into the new table, inside the inner try
        IF ~reply.ok THEN DoReturn(<<JsonText(MetadataFallback(args, fr, reply.error))>>)
        ELSE LET created_records == fr.created_records \o Get(reply.body, "records", <<>>)
                 next == fr.i + METADATA_BATCH
             IN  IF next <= Len(fr.metadata_records)
                 THEN DoCall(MetadataBatchPost(args["base_id"], fr.table_id,
                                               fr.metadata_records, next),
                             "new_batch",
                             [fr EXCEPT !.i = next, !.created_records = created_records])
                 ELSE DoReturn(<<JsonText(MetadataCreatedResult(args, fr, fr.table_id,
                                                                created_records))>>)

---------------------------------------------------------------------------
(* The dispatcher, server_refactored.py *)

\* the names of handler_map
handler_map ==
    {"list_tables", "get_records", "get_field_info", "create_record",
     "update_record", "delete_record", "batch_create_records",
     "batch_update_records", "analyze_table_data", "find_duplicates",
     "search_records", "create_metadata_table", "export_table_csv", "sync_tables"}

\* handler_map.get(tool)(arguments), run from `label`
Handler(tool, args, label, fr, reply) ==
    CASE tool = "list_tables" -> handle_list_tables(args, label, fr, reply)
      [] tool = "get_records" -> handle_get_records(args, label, fr, reply)
      [] tool = "get_field_info" -> handle_get_field_info(args, label, fr, reply)
      [] tool = "create_record" -> handle_create_record(args, label, fr, reply)
      [] tool = "update_record" -> handle_update_record(args, label, fr, reply)
      [] tool = "delete_record" -> handle_delete_record(args, label, fr, reply)
      [] tool = "batch_create_records" -> handle_batch_create_records(args, label, fr, reply)
      [] tool = "batch_update_records" -> handle_batch_update_records(args, label, fr, reply)
      [] tool = "analyze_table_data" -> handle_analyze_table_data(args, label, fr, reply)
      [] tool = "find_duplicates" -> handle_find_duplicates(args, label, fr, reply)
      [] tool = "search_records" -> handle_search_records(args, label, fr, reply)
      [] tool = "create_metadata_table" -> handle_create_metadata_table(args, label, fr, reply)
      [] tool = "export_table_csv" -> handle_export_table_csv(args, label, fr, reply)
      [] tool = "sync_tables" -> handle_sync_tables(args, label, fr, reply)

\* a name handler_map lacks sent to the first handler
Route_to_first(tool, args, label, fr, reply) ==
    IF tool \in handler_map
    THEN Handler(tool, args, label, fr, reply)
    ELSE handle_list_tables(args, label, fr, reply)

\* the body of _call_mcp_tool's try: the handler's step, or the result for
\* a name handler_map lacks
Route(tool, args, label, fr, reply) ==
    IF tool \in handler_map
    THEN Handler(tool, args, label, fr, reply)
    ELSE DoReturn(<<Text("Unknown tool: " \o tool)>>)

\* the handler's step with its exception caught: except Exception as e
Caught(step) ==
    IF step.op = "raise"
    THEN DoReturn(<<Text("Error: " \o step.exc)>>)
    ELSE step

\* the handler awaited outside the try
call_mcp_tool_uncaught(tool, args, label, fr, reply) ==
    Route(tool, args, label, fr, reply)

\* _call_mcp_tool: an exception of the try becomes an error result
call_mcp_tool(tool, args, label, fr, reply) ==
    Caught(Route(tool, args, label, fr, reply))

\* the two transports of the server
Transports == {"http", "stdio"}

\* POST /tools/call reporting success=false when the result is an error
\* text
http_call_tool_error_aware(tool, args, label, fr, reply) ==
    LET IsErrorText(res) ==
            /\ "text" \in DOMAIN res[1]
            /\ Len(res[1].text) >= 6
            /\ SubSeq(res[1].text, 1, 6) = "Error:"
        Respond(step) ==
            IF step.op = "call" THEN step
            ELSE IF step.op = "return"
            THEN DoReturn([result |-> step.result,
                           success |-> ~IsErrorText(step.result),
                           error |-> IF IsErrorText(step.result)
                                     THEN step.result[1].text ELSE NoValue])
            ELSE DoReturn([result |-> <<Text("Error: " \o step.exc)>>,
                           success |-> FALSE, error |-> step.exc])
    IN  Respond(call_mcp_tool(tool, args, label, fr, reply))

\* http_call_tool, POST /tools/call: the dispatcher's result becomes
\* ToolCallResponse(result=result, success=True), an exception of the
\* dispatcher the response of the except
http_call_tool(tool, args, label, fr, reply) ==
    LET Respond(step) ==
            IF step.op = "call" THEN step
            ELSE IF step.op = "return"
            THEN DoReturn([result |-> step.result, success |-> TRUE, error |-> NoValue])
            ELSE DoReturn([result |-> <<Text("Error: " \o step.exc)>>,
                           success |-> FALSE, error |-> step.exc])
    IN  Respond(call_mcp_tool(tool, args, label, fr, reply))

\* call_tool awaiting the handler itself, without the dispatcher's except
call_tool_direct(tool, args, label, fr, reply) ==
    LET Respond(step) ==
            IF step.op = "return" THEN DoReturn([result |-> step.result]) ELSE step
    IN  Respond(Route(tool, args, label, fr, reply))

\* call_tool of the pipe-based server: return await self._call_mcp_tool(...)
call_tool(tool, args, label, fr, reply) ==
    LET Respond(step) ==
            IF step.op = "return" THEN DoReturn([result |-> step.result]) ELSE step
    IN  Respond(call_mcp_tool(tool, args, label, fr, reply))

\* the invocation as the transport t serves it
Serve(t, tool, args, label, fr, reply) ==
    IF t = "http"
    THEN http_call_tool(tool, args, label, fr, reply)
    ELSE call_tool(tool, args, label, fr, reply)

---------------------------------------------------------------------------
(* The callers: the tool names and argument maps of the model *)

UnknownTools == {"nonexistent_tool", "drop_table"}

FieldsValue(i) == [Name |-> JStr("n" \o ToString(i))]
CreateItem(i) == [fields |-> FieldsValue(i)]
UpdateItem(i) == [id |-> "rec" \o ToString(i), fields |-> FieldsValue(i)]

\* the lengths of the `records` lists
BatchLens == (0..MaxRecs) \cup {MAX_BATCH, MAX_BATCH + 1}

\* the `records` arguments of batch_create_records
CreateLists ==
    {PyList([i \in 1..n |-> CreateItem(i)]) : n \in BatchLens}
    \cup {PyList([i \in 1..n |-> CreateItem(n + 1 - i)]) : n \in 2..MaxRecs}
    \cup {NonList("str", TRUE), NonList("dict", TRUE), NonList("NoneType", FALSE)}

\* the `records` arguments of batch_update_records: the last three lists
\* hold a record without fields, one that is no dict, one without id
UpdateLists ==
    {PyList([i \in 1..n |-> UpdateItem(i)]) : n \in BatchLens}
    \cup {PyList([i \in 1..n |-> UpdateItem(n + 1 - i)]) : n \in 2..MaxRecs}
    \cup {NonList("str", TRUE), NonList("dict", TRUE), NonList("NoneType", FALSE)}
    \cup {PyList(<<UpdateItem(1), [id |-> "rec2"]>>),
          PyList(<<[nondict |-> TRUE], UpdateItem(2)>>),
          PyList(<<[fields |-> FieldsValue(1)]>>)}

\* raw filter formulas: two safe ones (one to be normalized), one with an
\* unbalanced parenthesis, one calling a disallowed function
FormulaInputs == {"{Status}='Done'", " {Status}='Done' ", "OR(1=1", "EVAL('x')"}
\* search queries: plain, with a quote, breaking out of the quoted
\* literal, with a control character
QueryInputs == {"foo", "O'Brien", "') , 1=1, ('", "fo\to"}
SearchFieldInputs == {<<>>, <<"Name">>, <<"Name", "Na}me">>}

\* the keys a caller may pass to a tool, the required ones first and in
\* the order the handler reads them
ToolKeys(tool) ==
    CASE tool = "list_tables" -> <<"base_id">>
      [] tool = "get_records" ->
             <<"base_id", "table_id", "max_records", "view", "filter_by_formula">>
      [] tool = "get_field_info" -> <<"base_id", "table_id">>
      [] tool = "create_record" -> <<"base_id", "table_id", "fields">>
      [] tool = "update_record" -> <<"base_id", "table_id", "record_id", "fields">>
      [] tool = "delete_record" -> <<"base_id", "table_id", "record_id">>
      [] tool = "batch_create_records" -> <<"base_id", "table_id", "records">>
      [] tool = "batch_update_records" -> <<"base_id", "table_id", "records">>
      [] tool = "analyze_table_data" -> <<"base_id", "table_id", "sample_size">>
      [] tool = "find_duplicates" -> <<"base_id", "table_id", "fields", "ignore_empty">>
      [] tool = "search_records" ->
             <<"base_id", "table_id", "query", "fields", "max_records">>
      [] tool = "create_metadata_table" -> <<"base_id", "table_name">>
      [] tool = "export_table_csv" ->
             <<"base_id", "table_id", "fields", "view", "max_records">>
      [] tool = "sync_tables" ->
             <<"source_base_id", "source_table_id", "target_base_id",
               "target_table_id", "key_field", "dry_run">>
      [] OTHER -> <<"base_id">>

\* the values a caller may give a key of a tool
KeyValues(tool, key) ==
    CASE key \in {"base_id", "source_base_id"} -> {"appA"}
      [] key = "target_base_id" -> {"appB"}
      [] key = "table_id" ->
             IF tool \in {"get_field_info", "analyze_table_data"}
             THEN {"tbl1", "Contacts", "tblX"} ELSE {"tbl1"}
      [] key = "source_table_id" -> {"tbl1"}
      [] key = "target_table_id" -> {"tbl2"}
      [] key = "record_id" -> {"rec1"}
      [] key = "max_records" -> {10}
      [] key = "view" -> {"Grid"}
      [] key = "filter_by_formula" -> FormulaInputs
      [] key = "query" -> QueryInputs
      [] key = "sample_size" -> {5, SAMPLE_CAP, SAMPLE_CAP + 150}
      [] key = "ignore_empty" -> BOOLEAN
      [] key = "dry_run" -> BOOLEAN
      [] key = "key_field" -> {"Key"}
      [] key = "table_name" -> {"Table Metadata", "Audit"}
      [] key = "records" ->
             IF tool = "batch_create_records" THEN CreateLists ELSE UpdateLists
      [] key = "fields" ->
             IF tool \in {"create_record", "update_record"} THEN {FieldsValue(1)}
             ELSE IF tool = "find_duplicates"
             THEN {<<"Name">>, <<"Name", "Email">>, <<"Status">>}
             ELSE IF tool = "search_records" THEN SearchFieldInputs
             ELSE {<<>>, <<"Name", "Email">>}

\* the argument maps over a list of keys: every key present or absent
RECURSIVE ArgMaps(_, _)
ArgMaps(tool, keys) ==
    IF keys = <<>> THEN {EmptyDict}
    ELSE LET rest == ArgMaps(tool, Tail(keys))
         IN  rest \cup {(Head(keys) :> v) @@ m : v \in KeyValues(tool, Head(keys)), m \in rest}

ArgsFor(tool) == ArgMaps(tool, ToolKeys(tool))

---------------------------------------------------------------------------
(* The gateway: the bodies it answers with and the error it fails with *)

\* the schemas the gateway may answer with: none, no tables, two tables,
\* one with a metadata table, one with a table that lacks its name, one
\* with a table whose name is the id of the table before it, and one of
\* MaxTables tables, two of them metadata tables
Schemas ==
    LET F_Name == [id |-> "fld1", name |-> "Name", type |-> "singleLineText"]
        F_Email == [id |-> "fld2", name |-> "Email", type |-> "email"]
        F_Status == [id |-> "fld3", name |-> "Status", type |-> "singleSelect",
                     options |-> [choices |-> <<[name |-> "Done"], [name |-> "Open"]>>]]
        F_Amount == [id |-> "fld4", name |-> "Amount", type |-> "number"]
        T_Tasks == [id |-> "tbl1", name |-> "Tasks", description |-> "",
                    fields |-> <<F_Name, F_Email, F_Status>>,
                    views |-> <<[id |-> "viw1", name |-> "Grid"]>>,
                    primaryFieldId |-> "fld1"]
        T_Contacts == [id |-> "tbl2", name |-> "Contacts", description |-> "People",
                       fields |-> <<F_Name, F_Amount>>, views |-> <<>>]
        T_Metadata == [id |-> "tbl3", name |-> "Base Metadata", fields |-> <<F_Name>>]
        T_Mail == [id |-> "tbl1", name |-> "Mail", fields |-> <<F_Email>>]
        T_Alias == [id |-> "tbl7", name |-> "tbl1", fields |-> <<F_Name>>]
        F_Phone == [id |-> "fld5", name |-> "PHONE", type |-> "phoneNumber"]
        F_EmailAddress == [id |-> "fld6", name |-> "Email Address", type |-> "email"]
        T_Audit == [id |-> "tbl4", name |-> "Audit Log", fields |-> <<F_Name>>]
        T_ClientProjects == [id |-> "tbl5", name |-> "Client Projects",
                             fields |-> <<F_Name, F_Amount>>]
        T_InventoryEvents == [id |-> "tbl6", name |-> "Inventory Events",
                              fields |-> <<F_Name>>]
        T_Calendar == [id |-> "tbl7", name |-> "Calendar", fields |-> <<F_Email>>]
        T_Inbox == [id |-> "tbl8", name |-> "Mail", fields |-> <<F_Amount, F_Email>>]
        T_Ledger == [id |-> "tbl9", name |-> "Ledger", fields |-> <<F_Name, F_Amount>>]
        T_Notes == [id |-> "tbl10", name |-> "Notes", fields |-> <<F_EmailAddress>>]
        T_Budget == [id |-> "tbl11", name |-> "Budget", fields |-> <<F_Phone>>]
        T_Sheet(i) == [id |-> "tbl" \o ToString(i), name |-> "Sheet " \o ToString(i),
                       fields |-> <<>>]
    IN  {EmptyDict,
         [tables |-> <<>>],
         [tables |-> <<T_Tasks, T_Contacts>>],
         [tables |-> <<T_Contacts, T_Metadata>>],
         [tables |-> <<T_Tasks, [id |-> "tbl9"]>>],
         [tables |-> <<T_Mail, T_Alias>>],
         [tables |-> <<T_Tasks, T_Contacts, T_Audit, T_Metadata, T_ClientProjects,
                       T_InventoryEvents, T_Calendar, T_Inbox, T_Ledger, T_Notes,
                       T_Budget>>
                     \o [i \in 1..(MaxTables - 11) |-> T_Sheet(i + 11)]]}

\* the record lists the gateway may answer with
RecordsBodies ==
    LET R_1 == [id |-> "rec1", createdTime |-> "2024-01-01T00:00:00.000Z",
                fields |-> [Name |-> JStr("Bob"), Email |-> JStr(""), Key |-> JStr("K1")]]
        R_2 == [id |-> "rec2", createdTime |-> "2024-01-02T00:00:00.000Z",
                fields |-> [Name |-> JStr("bob "), Email |-> JStr("b@x.io"),
                            Status |-> JList(<<JStr("Done")>>), Key |-> JStr("K2")]]
        R_3 == [id |-> "rec3", createdTime |-> "2024-01-03T00:00:00.000Z",
                fields |-> [Name |-> JStr("x,y"), Amount |-> JNum(7),
                            Status |-> JList(<<JStr("Done")>>), Key |-> JStr("K1")]]
        R_4 == [id |-> "rec4", createdTime |-> "2024-01-04T00:00:00.000Z",
                fields |-> [Name |-> JStr("say \"hi\""),
                            Status |-> JList(<<JStr("Done"), JStr("Open")>>),
                            Key |-> JNum(0)]]
        \* two records whose Email holds nothing but blanks
        R_5 == [id |-> "rec5", createdTime |-> "2024-01-05T00:00:00.000Z",
                fields |-> [Name |-> JStr("Ann"), Email |-> JStr(" "), Key |-> JStr("K5")]]
        R_6 == [id |-> "rec6", createdTime |-> "2024-01-06T00:00:00.000Z",
                fields |-> [Name |-> JStr("ann"), Email |-> JStr("  "), Key |-> JStr("K6")]]
    IN  {[records |-> <<>>], [records |-> <<R_1, R_2>>], [records |-> <<R_2, R_3, R_1>>],
         [records |-> <<R_4, R_1>>], [records |-> <<R_5, R_1, R_6, R_2>>],
         [records |-> <<R_6, R_3>>]}

\* s ends with suffix
EndsWith(suffix, str) ==
    /\ Len(suffix) <= Len(str)
    /\ SubSeq(str, Len(str) - Len(suffix) + 1, Len(str)) = suffix

\* the bodies the gateway may answer a call with
GatewayBodies(call) ==
    IF call.method = "GET" THEN
        IF EndsWith("/schema", call.endpoint) THEN Schemas ELSE RecordsBodies
    ELSE IF call.method = "POST" THEN
        IF EndsWith("/records/batch", call.endpoint)
        THEN {[records |-> [i \in DOMAIN call.data.records |->
                               [id |-> "new" \o ToString(i),
                                fields |-> call.data.records[i]]]]}
        ELSE IF EndsWith("/records", call.endpoint)
        THEN {[id |-> "new1", fields |-> call.data]}
        ELSE {[id |-> "tblNew"], EmptyDict}
    ELSE IF call.method = "PATCH" THEN {[id |-> "rec", fields |-> call.data]}
    ELSE {[deleted |-> TRUE]}

\* str(e) of the exception a failing gateway call raises
GatewayErrors == {"Server error '500 Internal Server Error'"}

---------------------------------------------------------------------------
(* The state machine *)

Init ==
    /\ SECURITY_AVAILABLE \in BOOLEAN
    /\ pc = "idle"
    /\ name = NoValue
    /\ arguments = EmptyDict
    /\ at = "entry"
    /\ frame = EmptyDict
    /\ calls = <<>>
    /\ replies = <<>>
    /\ result = <<>>
    /\ handler_exc = NoValue
    /\ escaped = FALSE
    /\ transport = NoValue
    /\ response = EmptyDict
    /\ tasks = <<>>

\* the exception that leaves the handler in this step, if one does
RaisedBy(tool, step) ==
    IF tool \in handler_map /\ step.op = "raise" THEN step.exc ELSE NoValue

\* the dispatcher's step takes effect, as the transport serves it
Apply(step, served) ==
    /\ pc' = IF served.op = "call" THEN "await" ELSE "done"
    /\ at' = IF served.op = "call" THEN served.at ELSE "returned"
    /\ frame' = IF served.op = "call" THEN served.frame ELSE EmptyDict
    /\ calls' = IF served.op = "call" THEN Append(calls, served.call) ELSE calls
    /\ result' = IF step.op = "return" THEN step.result ELSE result
    /\ escaped' = (step.op = "raise")
    /\ response' = IF served.op = "return" THEN served.result
                   ELSE IF served.op = "raise" THEN [raised |-> served.exc]
                   ELSE response

\* a caller invokes a tool through a transport: POST /tools/call, or
\* call_tool
CallTool(t, tool, args) ==
    /\ pc = "idle"
    /\ transport' = t
    /\ name' = tool
    /\ arguments' = args
    /\ \E raised \in {Route(tool, args, "entry", EmptyDict, NoReply)} :
           handler_exc' = RaisedBy(tool, raised)
    /\ \E step \in {call_mcp_tool(tool, args, "entry", EmptyDict, NoReply)} :
       \E served \in {Serve(t, tool, args, "entry", EmptyDict, NoReply)} :
           Apply(step, served)
    /\ UNCHANGED <<SECURITY_AVAILABLE, replies, tasks>>

\* the gateway's reply resumes the handler
Resume(reply) ==
    /\ pc = "await"
    /\ replies' = Append(replies, reply)
    /\ \E raised \in {Route(name, arguments, at, frame, reply)} :
           handler_exc' = RaisedBy(name, raised)
    /\ \E step \in {call_mcp_tool(name, arguments, at, frame, reply)} :
       \E served \in {Serve(transport, name, arguments, at, frame, reply)} :
           Apply(step, served)
    /\ UNCHANGED <<SECURITY_AVAILABLE, name, arguments, transport, tasks>>

\* the gateway answers the pending call
GatewayReturns ==
    /\ pc = "await"
    /\ \E body \in GatewayBodies(calls[Len(calls)]) : Resume([ok |-> TRUE, body |-> body])

\* the pending call fails: a non-2xx status, a transport error
GatewayFails ==
    /\ pc = "await"
    /\ \E error \in GatewayErrors : Resume([ok |-> FALSE, error |-> error])

CallKnownTool ==
    /\ pc = "idle"
    /\ \E t \in Transports : \E tool \in handler_map : \E args \in ArgsFor(tool) :
           CallTool(t, tool, args)

CallUnknownTool ==
    /\ pc = "idle"
    /\ \E t \in Transports : \E tool \in UnknownTools :
       \E known \in handler_map : \E args \in ArgsFor(known) :
           CallTool(t, tool, args)

Next == CallKnownTool \/ CallUnknownTool \/ GatewayReturns \/ GatewayFails

Spec == Init /\ [][Next]_vars

---------------------------------------------------------------------------
(* Invocations in flight at once.  The event loop runs one coroutine at a  *)
(* time and switches between them where they await a gateway call; the     *)
(* invocations share the module-level gateway client and nothing else:     *)
(* each coroutine keeps its arguments and locals in its own frame.         *)

Tasks == 1..MaxTasks

\* the invocations of the concurrent model: batch updates of MaxRecs
\* records and of two records in reverse order, a single-call tool, a tool
\* that is not registered and a call that lacks a key
ConcurrentInputs ==
    LET Records(items) == [base_id |-> "appA", table_id |-> "tbl1", records |-> PyList(items)]
    IN  {<<"batch_update_records", Records([i \in 1..MaxRecs |-> UpdateItem(i)])>>,
         <<"batch_update_records", Records(<<UpdateItem(2), UpdateItem(1)>>)>>,
         <<"delete_record", [base_id |-> "appA", table_id |-> "tbl1", record_id |-> "rec1"]>>,
         <<"nonexistent_tool", EmptyDict>>,
         <<"update_record", [base_id |-> "appA"]>>}

\* none of these invocations reads SECURITY_AVAILABLE
InitConcurrent ==
    /\ SECURITY_AVAILABLE = TRUE
    /\ pc = "idle"
    /\ name = NoValue
    /\ arguments = EmptyDict
    /\ at = "entry"
    /\ frame = EmptyDict
    /\ calls = <<>>
    /\ replies = <<>>
    /\ result = <<>>
    /\ handler_exc = NoValue
    /\ escaped = FALSE
    /\ transport = NoValue
    /\ response = EmptyDict
    /\ tasks = [i \in Tasks |->
                   [pc |-> "idle", name |-> NoValue, arguments |-> EmptyDict,
                    at |-> "entry", frame |-> EmptyDict, calls |-> <<>>,
                    replies |-> <<>>, result |-> <<>>]]

\* updated_records and errors kept at module level: an invocation resumes
\* with the lists of another batch update that is in flight
TaskLocals_module_level(i) ==
    LET peers == {j \in Tasks \ {i} :
                     /\ tasks[i].name = "batch_update_records"
                     /\ tasks[j].name = "batch_update_records"
                     /\ tasks[j].pc = "await"}
    IN  IF peers = {} THEN tasks[i].frame
        ELSE [tasks[i].frame EXCEPT
                 !.updated_records = tasks[CHOOSE j \in peers : TRUE].frame.updated_records,
                 !.errors = tasks[CHOOSE j \in peers : TRUE].frame.errors]

\* the locals invocation i continues with after its await: those of its
\* own coroutine frame
TaskLocals(i) == tasks[i].frame

\* the invocation after the dispatcher's step
TaskAfter(task, step) ==
    [task EXCEPT
        !.pc = IF step.op = "call" THEN "await" ELSE "done",
        !.at = IF step.op = "call" THEN step.at ELSE "returned",
        !.frame = IF step.op = "call" THEN step.frame ELSE EmptyDict,
        !.calls = IF step.op = "call" THEN Append(@, step.call) ELSE @,
        !.result = IF step.op = "return" THEN step.result ELSE @]

\* invocation i starts and runs to its first await or to its return
Invoke(i) ==
    /\ tasks[i].pc = "idle"
    /\ \E input \in ConcurrentInputs :
           tasks' = [tasks EXCEPT ![i] =
               TaskAfter([@ EXCEPT !.name = input[1], !.arguments = input[2]],
                         call_mcp_tool(input[1], input[2], "entry", EmptyDict, NoReply))]
    /\ UNCHANGED <<SECURITY_AVAILABLE, pc, name, arguments, at, frame, calls, replies,
                   result, handler_exc, escaped, transport, response>>

\* the reply to the call invocation i awaits resumes it
ResumeTask(i, reply) ==
    /\ tasks' = [tasks EXCEPT ![i] =
           TaskAfter([@ EXCEPT !.replies = Append(@, reply)],
                     call_mcp_tool(tasks[i].name, tasks[i].arguments, tasks[i].at,
                                   TaskLocals(i), reply))]
    /\ UNCHANGED <<SECURITY_AVAILABLE, pc, name, arguments, at, frame, calls, replies,
                   result, handler_exc, escaped, transport, response>>

\* the gateway answers the call invocation i awaits
GatewayReturnsTo(i) ==
    /\ tasks[i].pc = "await"
    /\ \E body \in GatewayBodies(tasks[i].calls[Len(tasks[i].calls)]) :
           ResumeTask(i, [ok |-> TRUE, body |-> body])

\* the call invocation i awaits fails
GatewayFailsTo(i) ==
    /\ tasks[i].pc = "await"
    /\ \E error \in GatewayErrors : ResumeTask(i, [ok |-> FALSE, error |-> error])

NextConcurrent ==
    \E i \in Tasks : Invoke(i) \/ GatewayReturnsTo(i) \/ GatewayFailsTo(i)

SpecConcurrent == InitConcurrent /\ [][NextConcurrent]_vars

---------------------------------------------------------------------------
(* Properties of the dispatcher *)

\* the keys the handler of the invocation reads with arguments[k] are all
\* in the argument map
HasKeys(keys) == keys \subseteq DOMAIN arguments

\* every gateway call so far was answered, none failed
AllAnswered == \A i \in DOMAIN replies : replies[i].ok

\* C1: a tool name that is not in the handler table gets the single text
\* result "Unknown tool: <name>", whatever the argument map; no exception
\* leaves the dispatcher and no gateway call is issued.
C1_UnknownToolAnswered ==
    (pc # "idle" /\ name \notin handler_map) =>
        /\ pc = "done"
        /\ result = <<Text("Unknown tool: " \o name)>>
        /\ calls = <<>>
        /\ ~escaped

\* an unknown tool was dispatched with a non-empty argument map
C1_Witness ==
    /\ pc = "done"
    /\ name = "nonexistent_tool"
    /\ arguments # EmptyDict
    /\ result = <<Text("Unknown tool: nonexistent_tool")>>

\* C2: no exception leaves the dispatcher; a finished invocation has a
\* result payload; when an exception left the handler (a gateway failure
\* at any of its calls, a missing key, ...) the result is the one text
\* "Error: <exception message>".
C2_ExceptionBecomesResult ==
    /\ ~escaped
    /\ pc = "done" => result # <<>>
    /\ handler_exc # NoValue =>
           /\ pc = "done"
           /\ result = <<Text("Error: " \o handler_exc)>>

\* a handler's second gateway call failed and the dispatcher returned
C2_Witness ==
    /\ pc = "done"
    /\ Len(calls) = 2
    /\ handler_exc \in GatewayErrors
    /\ result = <<Text("Error: " \o handler_exc)>>

---------------------------------------------------------------------------
(* Properties of the formula handling *)

\* the raw formula of the invocation as validate_filter_formula answers it
Validated == validate_filter_formula(arguments["filter_by_formula"])

\* C3: get_records with a filter_by_formula while the safety layer is
\* available: a filter_by_formula that reaches the gateway is the string
\* validate_filter_formula returned for the argument; when it raises the
\* injection error no gateway call is issued and the result is
\* "Security Error: <message>".
C3_OnlyValidatedFormulaSent ==
    (/\ pc # "idle"
     /\ name = "get_records"
     /\ SECURITY_AVAILABLE
     /\ "filter_by_formula" \in DOMAIN arguments) =>
        /\ \A i \in DOMAIN calls :
               "filter_by_formula" \in DOMAIN calls[i].params =>
                   /\ ~Validated.raised
                   /\ calls[i].params["filter_by_formula"] = Validated.value
        /\ Validated.raised =>
               /\ calls = <<>>
               /\ HasKeys({"base_id", "table_id"}) =>
                      /\ pc = "done"
                      /\ result = <<Text("Security Error: " \o Validated.error)>>

\* a formula with surrounding blanks went to the gateway normalized
C3_Witness ==
    /\ name = "get_records"
    /\ SECURITY_AVAILABLE
    /\ "filter_by_formula" \in DOMAIN arguments
    /\ arguments["filter_by_formula"] = " {Status}='Done' "
    /\ Len(calls) = 1
    /\ calls[1].params["filter_by_formula"] = "{Status}='Done'"

\* C4: in degraded mode (SECURITY_AVAILABLE false) get_records never issues
\* a gateway call whose filter_by_formula is the caller's raw formula.
C4_RawFormulaNotForwarded ==
    (/\ name = "get_records"
     /\ ~SECURITY_AVAILABLE
     /\ "filter_by_formula" \in DOMAIN arguments) =>
        \A i \in DOMAIN calls :
            "filter_by_formula" \in DOMAIN calls[i].params =>
                calls[i].params["filter_by_formula"] # arguments["filter_by_formula"]

\* C5: with the safety layer disabled search_records never sends the
\* gateway the formula built by interpolating the raw query text and the
\* raw field names.
C5_HandBuiltFormulaNotSent ==
    (name = "search_records" /\ ~SECURITY_AVAILABLE) =>
        \A i \in DOMAIN calls :
            calls[i].params["filter_by_formula"]
                # InsecureSearchFormula(arguments["query"], Get(arguments, "fields", <<>>))

\* the formula build_safe_search_formula answers for the invocation
SafeBuilt == build_safe_search_formula(arguments["query"], Get(arguments, "fields", <<>>))

\* C6: with the safety layer available search_records sends, in exactly
\* one GET on the records endpoint, the value of
\* build_safe_search_formula(query, fields) (fields defaulting to []) as
\* filter_by_formula together with max_records (default 50); when the
\* builder raises the injection error the result is "Security Error: ..."
\* and no gateway call is issued.
C6_SafeSearchFormulaSent ==
    (/\ pc # "idle"
     /\ name = "search_records"
     /\ SECURITY_AVAILABLE
     /\ HasKeys({"base_id", "table_id", "query"})) =>
        IF SafeBuilt.raised
        THEN /\ pc = "done"
             /\ calls = <<>>
             /\ result = <<Text("Security Error: " \o SafeBuilt.error)>>
        ELSE calls = <<[method |-> "GET",
                        endpoint |-> "/bases/" \o arguments["base_id"] \o "/tables/"
                                         \o arguments["table_id"] \o "/records",
                        params |-> [filter_by_formula |-> SafeBuilt.value,
                                    max_records |-> IF "max_records" \in DOMAIN arguments
                                                    THEN arguments["max_records"]
                                                    ELSE 50]]>>

\* a query with a quote was searched in a named field, no max_records given
C6_Witness ==
    /\ name = "search_records"
    /\ SECURITY_AVAILABLE
    /\ DOMAIN arguments = {"base_id", "table_id", "query", "fields"}
    /\ arguments["query"] = "O'Brien"
    /\ arguments["fields"] = <<"Name">>
    /\ pc = "done"
    /\ Len(calls) = 1
    /\ calls[1].params["filter_by_formula"] = "OR(SEARCH(LOWER('O\\'Brien'), LOWER({Name})))"
    /\ calls[1].params["max_records"] = 50

\* C7: get_records without filter_by_formula issues exactly one GET on the
\* table's records endpoint whose parameters are those of max_records and
\* view the arguments hold, nothing else, and returns the gateway's answer.
\* The calls and the result are fixed by the arguments and the gateway's
\* reply alone: the same with and without the safety layer.
C7_UnfilteredRead ==
    (/\ pc # "idle"
     /\ name = "get_records"
     /\ "filter_by_formula" \notin DOMAIN arguments
     /\ HasKeys({"base_id", "table_id"})) =>
        /\ calls = <<[method |-> "GET",
                      endpoint |-> "/bases/" \o arguments["base_id"] \o "/tables/"
                                       \o arguments["table_id"] \o "/records",
                      params |-> [k \in {"max_records", "view"} \cap DOMAIN arguments |->
                                     arguments[k]]]>>
        /\ pc = "done" =>
               result = IF replies[1].ok
                        THEN <<JsonText(replies[1].body)>>
                        ELSE <<Text("Error: " \o replies[1].error)>>

\* an unfiltered read of a view was answered in degraded mode
C7_Witness ==
    /\ ~SECURITY_AVAILABLE
    /\ name = "get_records"
    /\ DOMAIN arguments = {"base_id", "table_id", "view"}
    /\ pc = "done"
    /\ Len(calls) = 1
    /\ DOMAIN calls[1].params = {"view"}
    /\ replies[1].ok
    /\ result = <<JsonText(replies[1].body)>>

---------------------------------------------------------------------------
(* Properties of the gateway calls *)

\* the method and the endpoint of every call issued so far, in order
Issued == [i \in DOMAIN calls |-> <<calls[i].method, calls[i].endpoint>>]

\* the `records` argument is a list of 1 to 10 elements
ValidBatch ==
    /\ IsList(arguments["records"])
    /\ Len(arguments["records"].items) \in 1..10

\* the `records` argument is a list of 1 to 10 records, each a dict with an
\* id and fields
ValidUpdateBatch ==
    /\ ValidBatch
    /\ \A i \in DOMAIN arguments["records"].items :
           HasIdAndFields(arguments["records"].items[i])

\* the arguments of the invocation are valid for its tool: the keys the
\* tool requires are there, a formula or query passes the safety layer when
\* there is one, a batch is a list of 1 to 10 well-formed records, and the
\* schema the gateway answered lists the table to analyze
ValidCall ==
    CASE name \in {"list_tables"} -> HasKeys({"base_id"})
      [] name = "get_records" ->
             /\ HasKeys({"base_id", "table_id"})
             /\ ("filter_by_formula" \in DOMAIN arguments /\ SECURITY_AVAILABLE)
                    => ~Validated.raised
      [] name \in {"get_field_info", "export_table_csv"} -> HasKeys({"base_id", "table_id"})
      [] name = "find_duplicates" -> HasKeys({"base_id", "table_id", "fields"})
      [] name = "search_records" ->
             /\ HasKeys({"base_id", "table_id", "query"})
             /\ SECURITY_AVAILABLE => ~SafeBuilt.raised
      [] name = "create_record" -> HasKeys({"base_id", "table_id", "fields"})
      [] name = "update_record" -> HasKeys({"base_id", "table_id", "record_id", "fields"})
      [] name = "delete_record" -> HasKeys({"base_id", "table_id", "record_id"})
      [] name = "batch_create_records" ->
             HasKeys({"base_id", "table_id", "records"}) /\ ValidBatch
      [] name = "batch_update_records" ->
             HasKeys({"base_id", "table_id", "records"}) /\ ValidUpdateBatch
      [] name = "analyze_table_data" ->
             /\ HasKeys({"base_id", "table_id"})
             /\ replies # <<>> =>
                    /\ replies[1].ok
                    /\ FindTable(Get(replies[1].body, "tables", <<>>),
                                 arguments["table_id"]).op = "found"
      [] name = "sync_tables" ->
             HasKeys({"source_base_id", "source_table_id", "target_base_id",
                      "target_table_id", "key_field"})
      [] OTHER -> FALSE

\* the calls the tool of the invocation is to make, as method and endpoint
ExpectedCalls ==
    LET Schema == "/bases/" \o arguments["base_id"] \o "/schema"
        Records(base_id, table_id) == "/bases/" \o base_id \o "/tables/" \o table_id \o "/records"
        TableRecords == Records(arguments["base_id"], arguments["table_id"])
    IN  CASE name \in {"list_tables", "get_field_info"} -> <<(<<"GET", Schema>>)>>
          [] name \in {"get_records", "find_duplicates", "search_records",
                       "export_table_csv"} -> <<(<<"GET", TableRecords>>)>>
          [] name = "create_record" -> <<(<<"POST", TableRecords>>)>>
          [] name = "update_record" ->
                 <<(<<"PATCH", TableRecords \o "/" \o arguments["record_id"]>>)>>
          [] name = "delete_record" ->
                 <<(<<"DELETE", TableRecords \o "/" \o arguments["record_id"]>>)>>
          [] name = "batch_create_records" -> <<(<<"POST", TableRecords \o "/batch">>)>>
          [] name = "batch_update_records" ->
                 [i \in DOMAIN arguments["records"].items |->
                     <<"PATCH", TableRecords \o "/" \o arguments["records"].items[i]["id"]>>]
          [] name = "analyze_table_data" -> <<(<<"GET", Schema>>), (<<"GET", TableRecords>>)>>
          [] name = "sync_tables" ->
                 <<(<<"GET", Records(arguments["source_base_id"],
                                     arguments["source_table_id"])>>),
                   (<<"GET", Records(arguments["target_base_id"],
                                     arguments["target_table_id"])>>)>>

\* C8: a known tool other than create_metadata_table, called with valid
\* arguments while the gateway answers every call, issues exactly the
\* calls of its row: at every moment the calls issued are the first ones
\* of the row, in order, and when the tool returns they are the whole row.
C8_ExactCallSequence ==
    (/\ pc # "idle"
     /\ name \in handler_map \ {"create_metadata_table"}
     /\ AllAnswered
     /\ ValidCall) =>
        /\ Len(Issued) <= Len(ExpectedCalls)
        /\ Issued = SubSeq(ExpectedCalls, 1, Len(Issued))
        /\ pc = "done" => Issued = ExpectedCalls

\* analyze_table_data returned after its two reads, schema before records
C8_Witness ==
    /\ pc = "done"
    /\ name = "analyze_table_data"
    /\ AllAnswered
    /\ ValidCall
    /\ Issued = <<(<<"GET", "/bases/appA/schema">>),
                  (<<"GET", "/bases/appA/tables/tbl1/records">>)>>

\* C9: batch_create_records with a `records` that is empty, no list, or
\* longer than 10 returns an error text and issues no gateway call; with a
\* list of 1 to 10 records it issues exactly one POST to records/batch
\* whose body holds all the records in input order.
C9_BatchCreateValidated ==
    (/\ pc # "idle"
     /\ name = "batch_create_records"
     /\ HasKeys({"base_id", "table_id", "records"})) =>
        IF ~IsList(arguments["records"]) \/ arguments["records"].items = <<>>
        THEN /\ pc = "done"
             /\ calls = <<>>
             /\ result = <<Text("Error: 'records' must be a non-empty array")>>
        ELSE IF Len(arguments["records"].items) > 10
        THEN /\ pc = "done"
             /\ calls = <<>>
             /\ result = <<Text("Error: Maximum 10 records per batch operation (Airtable limit)")>>
        ELSE calls = <<[method |-> "POST",
                        endpoint |-> "/bases/" \o arguments["base_id"] \o "/tables/"
                                         \o arguments["table_id"] \o "/records/batch",
                        data |-> [records |-> arguments["records"].items]]>>

\* a batch of exactly 10 records went out in one POST
C9_Witness ==
    /\ name = "batch_create_records"
    /\ HasKeys({"base_id", "table_id", "records"})
    /\ IsList(arguments["records"])
    /\ Len(arguments["records"].items) = 10
    /\ pc = "done"
    /\ Len(calls) = 1
    /\ calls[1].method = "POST"
    /\ calls[1].data.records = arguments["records"].items

\* the records whose PATCH failed, in input order
FailedPatches == SortedSeq({i \in DOMAIN replies : ~replies[i].ok})
\* the records whose PATCH returned, in input order
DonePatches == SortedSeq({i \in DOMAIN replies : replies[i].ok})

\* C10: batch_update_records on a validated list of n records issues the
\* PATCH of record i as its i-th call, each after the reply or failure of
\* the one before; a failed PATCH does not end the loop and raises
\* nothing; on return n PATCHes were issued, updated_records holds the
\* replies of those that returned, errors the ids of exactly those that
\* failed, and len(updated_records) + len(errors) = n.
C10_BatchUpdateIndependent ==
    (/\ pc # "idle"
     /\ name = "batch_update_records"
     /\ HasKeys({"base_id", "table_id", "records"})
     /\ ValidUpdateBatch) =>
        LET items == arguments["records"].items
            n == Len(items)
        IN  /\ Len(calls) <= n
            /\ \A i \in DOMAIN calls :
                   calls[i] = [method |-> "PATCH",
                               endpoint |-> "/bases/" \o arguments["base_id"] \o "/tables/"
                                                \o arguments["table_id"] \o "/records/"
                                                \o items[i]["id"],
                               data |-> items[i]["fields"]]
            /\ pc = "await" => Len(calls) = Len(replies) + 1
            /\ handler_exc = NoValue
            /\ pc = "done" =>
                   /\ Len(calls) = n
                   /\ Len(replies) = n
                   /\ Len(result) = 1
                   /\ "json" \in DOMAIN result[1]
                   /\ Len(result[1].json.updated_records) + Len(result[1].json.errors) = n
                   /\ result[1].json.updated_records
                          = [k \in DOMAIN DonePatches |-> replies[DonePatches[k]].body]
                   /\ [k \in DOMAIN result[1].json.errors |->
                          result[1].json.errors[k].record_id]
                          = [k \in DOMAIN FailedPatches |-> items[FailedPatches[k]]["id"]]

\* of three records the second failed: all three were patched, two are in
\* updated_records, one in errors
C10_Witness ==
    /\ pc = "done"
    /\ name = "batch_update_records"
    /\ HasKeys({"base_id", "table_id", "records"})
    /\ ValidUpdateBatch
    /\ Len(arguments["records"].items) = 3
    /\ Len(calls) = 3
    /\ replies[1].ok /\ ~replies[2].ok /\ replies[3].ok
    /\ Len(result[1].json.updated_records) = 2
    /\ Len(result[1].json.errors) = 1
    /\ result[1].json.errors[1].record_id = arguments["records"].items[2]["id"]

---------------------------------------------------------------------------
(* Properties of the argument handling *)

\* the keys the handler of a tool reads with arguments[key], in the order
\* it reads them
RequiredKeys(tool) ==
    CASE tool \in {"list_tables", "create_metadata_table"} -> <<"base_id">>
      [] tool \in {"get_records", "get_field_info", "analyze_table_data",
                   "export_table_csv"} -> <<"base_id", "table_id">>
      [] tool \in {"create_record", "find_duplicates"} -> <<"base_id", "table_id", "fields">>
      [] tool = "update_record" -> <<"base_id", "table_id", "record_id", "fields">>
      [] tool = "delete_record" -> <<"base_id", "table_id", "record_id">>
      [] tool \in {"batch_create_records", "batch_update_records"} ->
             <<"base_id", "table_id", "records">>
      [] tool = "search_records" -> <<"base_id", "table_id", "query">>
      [] tool = "sync_tables" ->
             <<"source_base_id", "source_table_id", "target_base_id",
               "target_table_id", "key_field">>
      [] OTHER -> <<>>

\* the first required key the argument map of the invocation lacks
MissingKey == FirstMissing(arguments, RequiredKeys(name))

\* C11: a known tool called without one of its required keys issues no
\* gateway call and returns an error text that names the missing key, and
\* the handler produces that result itself: no exception leaves it.
C11_MissingKeyAnsweredInHandler ==
    (pc # "idle" /\ name \in handler_map /\ MissingKey # NoValue) =>
        /\ pc = "done"
        /\ calls = <<>>
        /\ Len(result) = 1
        /\ "text" \in DOMAIN result[1]
        /\ Contains(MissingKey, result[1].text)
        /\ handler_exc = NoValue

---------------------------------------------------------------------------
(* Properties of the batch update *)

\* the text batch_update_records answers a malformed `records` with
BatchRejection ==
    LET records == arguments["records"]
    IN  IF ~Truthy(records) \/ ~IsList(records)
        THEN "Error: 'records' must be a non-empty array"
        ELSE IF Len(records.items) > 10
        THEN "Error: Maximum 10 records per batch operation (Airtable limit)"
        ELSE LET bad == {i \in DOMAIN records.items : ~HasIdAndFields(records.items[i])}
             IN  "Error: Record " \o ToString(SortedSeq(bad)[1] - 1)
                     \o " must have 'id' and 'fields' properties"

\* C12: batch_update_records with a `records` that is empty, no list,
\* longer than 10, or that holds an element without id and fields (at
\* whatever position) returns the error text of the first failed check
\* and issues no PATCH, nor any other gateway call; nothing is raised.
C12_BatchUpdateValidatedFirst ==
    (/\ pc # "idle"
     /\ name = "batch_update_records"
     /\ HasKeys({"base_id", "table_id", "records"})
     /\ ~ValidUpdateBatch) =>
        /\ pc = "done"
        /\ calls = <<>>
        /\ result = <<Text(BatchRejection)>>
        /\ handler_exc = NoValue

\* a list whose first record is well-formed and whose second lacks its
\* fields was rejected without a call
C12_Witness ==
    /\ pc = "done"
    /\ name = "batch_update_records"
    /\ HasKeys({"base_id", "table_id", "records"})
    /\ IsList(arguments["records"])
    /\ Len(arguments["records"].items) = 2
    /\ HasIdAndFields(arguments["records"].items[1])
    /\ ~HasIdAndFields(arguments["records"].items[2])
    /\ calls = <<>>
    /\ result = <<Text("Error: Record 1 must have 'id' and 'fields' properties")>>

---------------------------------------------------------------------------
(* Properties of the analysis handlers *)

\* the records the gateway answered the first call of the invocation with
Fetched == Get(replies[1].body, "records", <<>>)

\* the value of a compared field as the duplicate check compares it: a
\* string trimmed and lower-cased, any other value as it is
Normalized(v) == IF IsStr(v) THEN JStr(Lower(Strip(v.str))) ELSE v

\* C13: find_duplicates on a non-empty record list reports groups such
\* that two fetched records are in the same group exactly when neither is
\* left out and, for every compared field, their normalized values are
\* equal; with ignore_empty (true by default) a record with a null or
\* empty value in a compared field is in no group; every reported group
\* has more than one member.
C13_DuplicateGroups ==
    (/\ pc = "done"
     /\ name = "find_duplicates"
     /\ HasKeys({"base_id", "table_id", "fields"})
     /\ AllAnswered
     /\ Fetched # <<>>) =>
        /\ Len(result) = 1
        /\ LET fields == arguments["fields"]
               \* the reported groups: none when the result is an error text
               groups == IF "json" \in DOMAIN result[1]
                         THEN result[1].json.duplicates ELSE <<>>
               IdsOf(g) == {groups[g].records[k].id : k \in DOMAIN groups[g].records}
               LeftOut(i) ==
                   /\ Get(arguments, "ignore_empty", TRUE)
                   /\ \E k \in DOMAIN fields : IsEmptyValue(FieldValue(Fetched[i], fields[k]))
               SameValues(i, j) ==
                   \A k \in DOMAIN fields :
                       Normalized(FieldValue(Fetched[i], fields[k]))
                           = Normalized(FieldValue(Fetched[j], fields[k]))
           IN  /\ \A i, j \in DOMAIN Fetched :
                      i # j =>
                          ((\E g \in DOMAIN groups : {Fetched[i].id, Fetched[j].id} \subseteq IdsOf(g))
                              <=> (~LeftOut(i) /\ ~LeftOut(j) /\ SameValues(i, j)))
               /\ \A i \in DOMAIN Fetched :
                      LeftOut(i) => \A g \in DOMAIN groups : Fetched[i].id \notin IdsOf(g)
               /\ \A g \in DOMAIN groups : Len(groups[g].records) > 1

---------------------------------------------------------------------------
(* Properties of sync_tables *)

\* the source and the target records the gateway answered with
SourceRecords == Get(replies[1].body, "records", <<>>)
TargetRecords == Get(replies[2].body, "records", <<>>)

\* the record has a key: its key_field value is there and not empty
HasKey(record) ==
    FieldValue(record, arguments["key_field"]) \notin {JNull, JStr(""), JList(<<>>)}

\* the key of a record as text
KeyText(record) ==
    LET v == FieldValue(record, arguments["key_field"])
    IN  IF IsStr(v) THEN v.str ELSE IF IsNum(v) THEN ToString(v.num) ELSE "None"

\* the target records with the key of source record i
TargetsOf(i) ==
    {j \in DOMAIN TargetRecords :
        HasKey(TargetRecords[j]) /\ KeyText(TargetRecords[j]) = KeyText(SourceRecords[i])}

\* C14: sync_tables marks a source record with a non-empty key for create
\* iff no target record has its (stringified) key, for update iff a target
\* record has it and the field maps of the two differ; it marks a target
\* key for delete iff no source record has it; records without a key, or
\* with an empty one, are in no list; the counts of the summary are the
\* lengths of the three lists.
C14_SyncClassification ==
    (/\ pc = "done"
     /\ name = "sync_tables"
     /\ HasKeys({"source_base_id", "source_table_id", "target_base_id",
                 "target_table_id", "key_field"})
     /\ Len(replies) = 2
     /\ AllAnswered) =>
        LET plan == result[1].json
            Creates == {i \in DOMAIN SourceRecords :
                           HasKey(SourceRecords[i]) /\ TargetsOf(i) = {}}
            Updates == {i \in DOMAIN SourceRecords :
                           /\ HasKey(SourceRecords[i])
                           /\ TargetsOf(i) # {}
                           /\ SourceRecords[i]["fields"]
                                  # TargetRecords[SortedSeq(TargetsOf(i))[Cardinality(TargetsOf(i))]]["fields"]}
            DeleteKeys == {KeyText(TargetRecords[j]) :
                              j \in {m \in DOMAIN TargetRecords : HasKey(TargetRecords[m])}}
                          \ {KeyText(SourceRecords[i]) :
                                i \in {m \in DOMAIN SourceRecords : HasKey(SourceRecords[m])}}
            Shown(entries) == {entries[k].key : k \in DOMAIN entries}
        IN  /\ plan.changes.create
                   = [k \in 1..Cardinality(Creates) |->
                         [key |-> FieldValue(SourceRecords[SortedSeq(Creates)[k]],
                                             arguments["key_field"]),
                          fields |-> SourceRecords[SortedSeq(Creates)[k]]["fields"]]]
            /\ [k \in DOMAIN plan.changes.update |-> plan.changes.update[k].key]
                   = [k \in 1..Cardinality(Updates) |->
                         FieldValue(SourceRecords[SortedSeq(Updates)[k]],
                                    arguments["key_field"])]
            /\ {IF IsStr(v) THEN v.str ELSE ToString(v.num) : v \in Shown(plan.changes.delete)}
                   = DeleteKeys
            /\ \A k \in DOMAIN plan.changes.delete :
                   HasKey(CHOOSE r \in {TargetRecords[j] : j \in DOMAIN TargetRecords} :
                              r.id = plan.changes.delete[k].id)
            /\ plan.sync_summary.records_to_create = Cardinality(Creates)
            /\ plan.sync_summary.records_to_update = Cardinality(Updates)
            /\ plan.sync_summary.records_to_delete = Cardinality(DeleteKeys)
            /\ plan.sync_summary.records_to_create = Len(plan.changes.create)
            /\ plan.sync_summary.records_to_update = Len(plan.changes.update)
            /\ plan.sync_summary.records_to_delete = Len(plan.changes.delete)

\* the plan sync_tables returns on the same records with dry_run true
DryRunPlan == SyncPlan(("dry_run" :> TRUE) @@ arguments, SourceRecords, TargetRecords)

SchemaTables == Get(replies[1].body, "tables", <<>>)

\* the entry of the schema at index i has table_id as its id or its name
Matches(i) ==
    \/ Get(SchemaTables[i], "id", NoValue) = arguments["table_id"]
    \/ Get(SchemaTables[i], "name", NoValue) = arguments["table_id"]

\* the first entry of the schema, in schema order, that matches
LocatedTable ==
    SchemaTables[CHOOSE i \in DOMAIN SchemaTables :
                     Matches(i) /\ \A j \in 1..(i - 1) : ~Matches(j)]

\* the records the gateway answered the second call with: the sample
Sampled == Get(replies[2].body, "records", <<>>)

\* the sampled records whose value of the field is neither null nor ""
FilledIn(field_name) ==
    {i \in DOMAIN Sampled : FieldValue(Sampled[i], field_name) \notin {JNull, JStr("")}}

\* analyze_table_data returned its statistics of a non-empty sample
Analyzed ==
    /\ pc = "done"
    /\ name = "analyze_table_data"
    /\ HasKeys({"base_id", "table_id"})
    /\ Len(replies) = 2
    /\ AllAnswered
    /\ Sampled # <<>>

\* C16: analyze_table_data reports every field of the located table, in
\* field order, with total_records the number of sampled records,
\* filled_count the number of them whose value is neither null nor "",
\* filled_count + empty_count = total_records, and fill_rate the
\* percentage filled/total*100 to one decimal: in tenths, the integer
\* nearest to 1000*filled/total.
C16_FillRate ==
    Analyzed =>
        LET fields == Get(LocatedTable, "fields", <<>>)
            stats == result[1].json.field_analysis
            total == Len(Sampled)
        IN  /\ Len(stats) = Len(fields)
            /\ \A k \in DOMAIN fields :
                   LET filled == Cardinality(FilledIn(fields[k]["name"]))
                       off == stats[k].fill_rate * total - 1000 * filled
                   IN  /\ stats[k].field_name = fields[k]["name"]
                       /\ stats[k].total_records = total
                       /\ stats[k].filled_count = filled
                       /\ stats[k].filled_count + stats[k].empty_count = stats[k].total_records
                       /\ 2 * off <= total
                       /\ -2 * off <= total

\* of three sampled records one has an Email: its fill rate is 33.3
C16_Witness ==
    /\ Analyzed
    /\ Len(Sampled) = 3
    /\ \E k \in DOMAIN result[1].json.field_analysis :
           /\ result[1].json.field_analysis[k].field_name = "Email"
           /\ result[1].json.field_analysis[k].filled_count = 1
           /\ result[1].json.field_analysis[k].empty_count = 2
           /\ result[1].json.field_analysis[k].fill_rate = 333

\* C17: the insights of analyze_table_data name, in one line each, the
\* fields with a fill rate below 50 as low-completion, those with fill
\* rate 0 as unused (these are in both lines) and those with fill rate
\* 100 as complete; a line is there iff its list is not empty, and the
\* "looks good" line is there iff all three lists are empty.
C17_Insights ==
    Analyzed =>
        LET stats == result[1].json.field_analysis
            insights == result[1].json.data_quality_insights
            Low == {k \in DOMAIN stats : stats[k].fill_rate < 500}
            Unused == {k \in DOMAIN stats : stats[k].fill_rate = 0}
            Complete == {k \in DOMAIN stats : stats[k].fill_rate = 1000}
            Names(S) == Join([k \in 1..Cardinality(S) |-> stats[SortedSeq(S)[k]].field_name], ", ")
            Has(line) == \E i \in DOMAIN insights : insights[i] = line
            About(prefix) == \E i \in DOMAIN insights : Contains(prefix, insights[i])
        IN  /\ IF Low # {}
               THEN Has("Low data completion: " \o Names(Low) \o " have <50% fill rate")
               ELSE ~About("Low data completion")
            /\ IF Unused # {}
               THEN Has("Unused fields: " \o Names(Unused) \o " are completely empty")
               ELSE ~About("Unused fields")
            /\ IF Complete # {}
               THEN Has("Complete data: " \o Names(Complete) \o " have 100% fill rate")
               ELSE ~About("Complete data")
            /\ About("Data quality looks good") <=> (Low = {} /\ Unused = {} /\ Complete = {})
            /\ Unused \subseteq Low

\* a field without any value was listed as low-completion and as unused,
\* next to a complete one
C17_Witness ==
    /\ Analyzed
    /\ result[1].json.data_quality_insights
           = <<"Low data completion: Amount have <50% fill rate",
               "Unused fields: Amount are completely empty",
               "Complete data: Name have 100% fill rate">>

\* C18: the records GET of analyze_table_data, its second call, carries
\* max_records = min(sample_size, 100), sample_size being 100 when the
\* caller gives none; no call of the tool asks for more than 100 records.
C18_SampleCapped ==
    (pc # "idle" /\ name = "analyze_table_data" /\ HasKeys({"base_id", "table_id"})) =>
        /\ \A i \in DOMAIN calls :
               "max_records" \in DOMAIN calls[i].params => calls[i].params["max_records"] <= 100
        /\ Len(calls) >= 2 =>
               LET sample_size == IF "sample_size" \in DOMAIN arguments
                                  THEN arguments["sample_size"] ELSE 100
               IN  /\ calls[2].method = "GET"
                   /\ DOMAIN calls[2].params = {"max_records"}
                   /\ calls[2].params["max_records"]
                          = IF sample_size < 100 THEN sample_size ELSE 100

\* a caller asked for 250 records and the gateway was asked for 100
C18_Witness ==
    /\ name = "analyze_table_data"
    /\ HasKeys({"base_id", "table_id", "sample_size"})
    /\ arguments["sample_size"] = 250
    /\ Len(calls) = 2
    /\ calls[2].params["max_records"] = 100

---------------------------------------------------------------------------
(* Properties of the table lookup *)

\* every entry of the schema has an id and a name, as the gateway's
\* schema has
WellFormedSchema ==
    \A i \in DOMAIN SchemaTables : {"id", "name"} \subseteq DOMAIN SchemaTables[i]

\* C19: get_field_info and analyze_table_data, once the schema is there,
\* work on the first entry of the schema, in schema order, whose id or
\* name is table_id; when no entry matches they return the text
\* "Error: Table '<table_id>' not found" themselves, nothing is raised,
\* and the schema GET stays the only call: analyze_table_data reads no
\* records.
C19_TableLookup ==
    (/\ pc # "idle"
     /\ name \in {"get_field_info", "analyze_table_data"}
     /\ HasKeys({"base_id", "table_id"})
     /\ replies # <<>>
     /\ replies[1].ok
     /\ WellFormedSchema) =>
        IF \E i \in DOMAIN SchemaTables : Matches(i)
        THEN /\ handler_exc \notin {KeyErrorStr("id"), KeyErrorStr("name")}
             /\ (pc = "done" /\ Len(result) = 1 /\ "json" \in DOMAIN result[1]) =>
                    result[1].json.table_name = LocatedTable["name"]
             /\ (pc = "done" /\ name = "get_field_info") =>
                    /\ Len(calls) = 1
                    /\ result[1].json.table_id = LocatedTable["id"]
                    /\ result[1].json.total_fields = Len(Get(LocatedTable, "fields", <<>>))
             /\ name = "analyze_table_data" =>
                    /\ Len(calls) = 2
                    /\ calls[2].method = "GET"
                    /\ (pc = "done" /\ AllAnswered /\ Len(replies) = 2 /\ Sampled # <<>>) =>
                           result[1].json.analysis_summary.total_fields
                               = Len(Get(LocatedTable, "fields", <<>>))
        ELSE /\ pc = "done"
             /\ Len(calls) = 1
             /\ calls[1] = [method |-> "GET",
                            endpoint |-> "/bases/" \o arguments["base_id"] \o "/schema",
                            params |-> EmptyDict]
             /\ result = <<Text("Error: Table '" \o arguments["table_id"] \o "' not found")>>
             /\ handler_exc = NoValue

\* analyze_table_data did not find its table in a schema of two tables
\* and returned after the schema read
C19_Witness ==
    /\ pc = "done"
    /\ name = "analyze_table_data"
    /\ HasKeys({"base_id", "table_id"})
    /\ Len(replies) = 1
    /\ replies[1].ok
    /\ Len(SchemaTables) = 2
    /\ WellFormedSchema
    /\ Len(calls) = 1
    /\ result = <<Text("Error: Table 'tblX' not found")>>

---------------------------------------------------------------------------
(* Properties of the CSV export *)

\* the positions of the character c in text that are outside quotes:
\* those with an even number of quote characters before them
Unquoted(text, c) ==
    {i \in 1..Len(text) :
        /\ SubSeq(text, i, i) = c
        /\ Cardinality({j \in 1..(i - 1) : SubSeq(text, j, j) = "\""}) % 2 = 0}

\* the pieces of text that end at the positions of cuts, without them
PiecesOf(text, cuts) ==
    [k \in DOMAIN cuts |->
        SubSeq(text, (IF k = 1 THEN 0 ELSE cuts[k - 1]) + 1, cuts[k] - 1)]

\* a quoted cell without its quotes, a doubled quote in it being one
RECURSIVE UndoubleFrom(_, _)
UndoubleFrom(str, i) ==
    IF i > Len(str) THEN ""
    ELSE IF i < Len(str) /\ SubSeq(str, i, i + 1) = "\"\"" THEN "\"" \o UndoubleFrom(str, i + 2)
    ELSE SubSeq(str, i, i) \o UndoubleFrom(str, i + 1)

CellOf(piece) ==
    IF Len(piece) >= 2 /\ SubSeq(piece, 1, 1) = "\""
    THEN UndoubleFrom(SubSeq(piece, 2, Len(piece) - 1), 1)
    ELSE piece

\* the cells of one line of a CSV text, its line end taken off
CellsOf(line) ==
    LET pieces == PiecesOf(line, SortedSeq(Unquoted(line, ",") \cup {Len(line) + 1}))
    IN  [k \in DOMAIN pieces |-> CellOf(pieces[k])]

\* a CSV text read back: its rows, each the sequence of its cells.  A
\* line ends at a line feed outside quotes, a cell at a comma outside
\* quotes.
ReadCsv(text) ==
    LET lines == PiecesOf(text, SortedSeq(Unquoted(text, "\n")))
        Bare(line) == IF Len(line) > 0 /\ SubSeq(line, Len(line), Len(line)) = "\r"
                      THEN SubSeq(line, 1, Len(line) - 1) ELSE line
    IN  [k \in DOMAIN lines |-> CellsOf(Bare(lines[k]))]

\* the text of a field value in its cell
CellText(v) ==
    LET Str(x) == IF IsStr(x) THEN x.str ELSE IF IsNum(x) THEN ToString(x.num) ELSE "None"
    IN  IF IsJList(v) THEN Join([k \in DOMAIN v.list |-> Str(v.list[k])], ", ")
        ELSE IF v = JNull THEN ""
        ELSE Str(v)

\* export_table_csv returned the export of a non-empty record list
Exported ==
    /\ pc = "done"
    /\ name = "export_table_csv"
    /\ HasKeys({"base_id", "table_id"})
    /\ AllAnswered
    /\ Fetched # <<>>

\* C20: the CSV of export_table_csv, read back, is the header row
\* "Record ID", the exported fields in order, "Created Time", then one
\* row per fetched record in fetch order, each of len(fields) + 2 cells:
\* the record id, per field the text of its value (list elements joined
\* with ", ", null or missing as "", anything else stringified) as one
\* cell whatever it contains, the created time.  The exported fields are
\* the `fields` argument, or without one the keys of the first record's
\* field map.
C20_CsvRows ==
    Exported =>
        LET export == result[1].json
            fields == export.fields_exported
            rows == ReadCsv(export.full_csv_data)
        IN  /\ IF "fields" \in DOMAIN arguments /\ arguments["fields"] # <<>>
               THEN fields = arguments["fields"]
               ELSE /\ {fields[k] : k \in DOMAIN fields} = DOMAIN Fetched[1]["fields"]
                    /\ Len(fields) = Cardinality(DOMAIN Fetched[1]["fields"])
            /\ Len(rows) = Len(Fetched) + 1
            /\ rows[1] = <<"Record ID">> \o fields \o <<"Created Time">>
            /\ \A r \in DOMAIN Fetched :
                   /\ Len(rows[r + 1]) = Len(fields) + 2
                   /\ rows[r + 1][1] = Fetched[r]["id"]
                   /\ \A k \in DOMAIN fields :
                          rows[r + 1][k + 1] = CellText(FieldValue(Fetched[r], fields[k]))
                   /\ rows[r + 1][Len(fields) + 2] = Get(Fetched[r], "createdTime", "")

\* without a `fields` argument a record whose name holds a comma was
\* exported: the name is one cell of its row
C20_Witness ==
    /\ Exported
    /\ "fields" \notin DOMAIN arguments
    /\ \E r \in DOMAIN Fetched :
           /\ Contains(",", FieldValue(Fetched[r], "Name").str)
           /\ ReadCsv(result[1].json.full_csv_data)[r + 1][2]
                  = FieldValue(Fetched[r], "Name").str

---------------------------------------------------------------------------
(* Properties of create_metadata_table *)

\* table_name, "Table Metadata" when the caller gives none
RequestedName == Get(arguments, "table_name", DefaultMetadataName)

\* the name of the schema's table i contains table_name or "metadata",
\* whatever the case of the letters
IsMetadataName(i) ==
    \/ Contains(Lower(RequestedName), Lower(SchemaTables[i]["name"]))
    \/ Contains("metadata", Lower(SchemaTables[i]["name"]))

\* the first table of the schema, in schema order, with such a name
ExistingTable ==
    SchemaTables[CHOOSE i \in DOMAIN SchemaTables :
                     IsMetadataName(i) /\ \A j \in 1..(i - 1) : ~IsMetadataName(j)]

\* create_metadata_table has the schema, every table of it with id and name
MetadataPrepared ==
    /\ pc # "idle"
    /\ name = "create_metadata_table"
    /\ HasKeys({"base_id"})
    /\ replies # <<>>
    /\ replies[1].ok
    /\ WellFormedSchema

\* call k is a batch POST to the table: the metadata records of the
\* schema's tables first..last, in schema order
IsMetadataBatch(k, table_id, first, last) ==
    /\ calls[k].method = "POST"
    /\ calls[k].endpoint = BatchEndpoint(arguments["base_id"], table_id)
    /\ DOMAIN calls[k].data = {"records"}
    /\ Len(calls[k].data.records) = last - first + 1
    /\ \A j \in 1..(last - first + 1) :
           LET sent == calls[k].data.records[j]
               table == SchemaTables[first + j - 1]
           IN  /\ DOMAIN sent = {"fields"}
               /\ sent.fields["Table ID"] = table["id"]
               /\ sent.fields["Table Name"] = table["name"]

\* C21: create_metadata_table, when the fetched schema has a table whose
\* name contains table_name or "metadata" (case-insensitive), works on the
\* first such table in schema order: no table-creation POST is issued, and
\* the calls after the schema GET are consecutive batch POSTs to that
\* table, the k-th carrying the metadata records of the schema's tables
\* 10(k-1)+1 .. min(10k, n) in schema order, so at most 10 records each,
\* every record once, and ceil(n/10) POSTs when none of them fails.
C21_ExistingMetadataTableFilled ==
    (MetadataPrepared /\ \E i \in DOMAIN SchemaTables : IsMetadataName(i)) =>
        LET n == Len(SchemaTables)
            posts == (n + 9) \div 10
        IN  /\ Len(calls) <= 1 + posts
            /\ \A k \in 2..Len(calls) :
                   /\ calls[k].endpoint # WebTablesEndpoint(arguments["base_id"])
                   /\ IsMetadataBatch(k, ExistingTable["id"],
                                      10 * (k - 2) + 1,
                                      IF 10 * (k - 1) < n THEN 10 * (k - 1) ELSE n)
            /\ (pc = "await" /\ AllAnswered) => Len(calls) >= 2
            /\ (pc = "done" /\ AllAnswered) =>
                   /\ Len(calls) = 1 + posts
                   /\ "json" \in DOMAIN result[1]
                   /\ result[1].json.success
                   /\ result[1].json.table_id = ExistingTable["id"]

\* twelve tables, the fourth the first one named like a metadata table:
\* the records went there in a batch of ten and a batch of two
C21_Witness ==
    /\ MetadataPrepared
    /\ pc = "done"
    /\ AllAnswered
    /\ Len(SchemaTables) > 10
    /\ Len(calls) = 3
    /\ Len(calls[2].data.records) = 10
    /\ ExistingTable["name"] = "Base Metadata"
    /\ SchemaTables[3]["name"] = "Audit Log"
    /\ result[1].json.records_created = Len(SchemaTables)

\* create_metadata_table found no table named like a metadata table
NoExistingTable == MetadataPrepared /\ \A i \in DOMAIN SchemaTables : ~IsMetadataName(i)

\* records holds one metadata record per table of the schema, in schema
\* order
OnePerTable(records) ==
    /\ Len(records) = Len(SchemaTables)
    /\ \A i \in DOMAIN SchemaTables :
           /\ records[i]["Table ID"] = SchemaTables[i]["id"]
           /\ records[i]["Table Name"] = SchemaTables[i]["name"]

\* C22: create_metadata_table, when no table of the schema matches and the
\* table-creation POST fails, does not fail: no exception leaves the
\* handler, and it returns the payload with success false, the prepared
\* metadata records (one per schema table) and the instructions to create
\* the table by hand; no records/batch POST is issued.
C22_CreationFailureFallsBack ==
    (NoExistingTable /\ Len(replies) >= 2 /\ ~replies[2].ok) =>
        /\ pc = "done"
        /\ handler_exc = NoValue
        /\ ~escaped
        /\ Len(calls) = 2
        /\ calls[2].method = "POST"
        /\ calls[2].endpoint = WebTablesEndpoint(arguments["base_id"])
        /\ \A k \in DOMAIN calls : ~EndsWith("/records/batch", calls[k].endpoint)
        /\ Len(result) = 1
        /\ "json" \in DOMAIN result[1]
        /\ {"success", "action_required", "prepared_records", "records_ready",
            "fallback_instructions", "web_api_error"} \subseteq DOMAIN result[1].json
        /\ result[1].json.success = FALSE
        /\ result[1].json.action_required = "MANUAL_TABLE_CREATION"
        /\ OnePerTable(result[1].json.prepared_records)
        /\ result[1].json.records_ready = Len(SchemaTables)
        /\ result[1].json.web_api_error = replies[2].error
        /\ result[1].json.fallback_instructions # <<>>

\* two tables, none named like a metadata table, and the creation failed
C22_Witness ==
    /\ NoExistingTable
    /\ Len(SchemaTables) = 2
    /\ Len(replies) = 2
    /\ ~replies[2].ok
    /\ pc = "done"
    /\ result[1].json.action_required = "MANUAL_TABLE_CREATION"
    /\ Len(result[1].json.prepared_records) = 2

\* the purpose the keyword sets give a table: the four sets of the table
\* name in their order, then the two sets of the field names
StatedPurpose(table) ==
    LET name_sets == <<{"project", "task", "todo"},
                       {"contact", "people", "user", "client"},
                       {"product", "inventory", "item"},
                       {"event", "calendar", "schedule"}>>
        name_purposes == <<"Project/Task Management", "Contact/People Management",
                           "Product/Inventory Tracking", "Event/Schedule Management">>
        fields == Get(table, "fields", <<>>)
        hits == {s \in 1..4 : \E w \in name_sets[s] : Contains(w, Lower(table["name"]))}
        has_field(words) ==
            \E i \in DOMAIN fields : Lower(Get(fields[i], "name", "")) \in words
    IN  IF hits # {}
        THEN name_purposes[CHOOSE s \in hits : \A t \in hits : s <= t]
        ELSE IF has_field({"email", "phone", "address"}) THEN "Contact Information"
        ELSE IF has_field({"price", "cost", "amount", "budget"})
        THEN "Financial/Budget Tracking"
        ELSE "General Data Storage"

\* the metadata record describes a table of the schema and gives it the
\* purpose the keyword sets give
PurposeAsStated(record) ==
    /\ \E i \in DOMAIN SchemaTables : SchemaTables[i]["id"] = record["Table ID"]
    /\ \A i \in DOMAIN SchemaTables :
           SchemaTables[i]["id"] = record["Table ID"] =>
               record["Purpose"] = StatedPurpose(SchemaTables[i])

\* C23: purpose inference tests the table name before the field names and
\* the keyword sets in their order: a table whose name contains a keyword
\* of one of the four name sets gets the purpose of the first such set,
\* whatever its fields; otherwise the lower-cased field names are tested
\* against {email, phone, address}, then {price, cost, amount, budget};
\* otherwise the purpose is General Data Storage.  Every metadata record
\* create_metadata_table sends or hands back carries that purpose.
C23_PurposeInference ==
    MetadataPrepared =>
        /\ \A k \in 2..Len(calls) :
               EndsWith("/records/batch", calls[k].endpoint) =>
                   \A j \in DOMAIN calls[k].data.records :
                       PurposeAsStated(calls[k].data.records[j].fields)
        /\ (/\ pc = "done"
            /\ "json" \in DOMAIN result[1]
            /\ "prepared_records" \in DOMAIN result[1].json) =>
               \A j \in DOMAIN result[1].json.prepared_records :
                   PurposeAsStated(result[1].json.prepared_records[j])

\* the first batch of the twelve tables: a task table with an Email field,
\* a name with keywords of two sets, field keywords only, a field name
\* that merely contains a keyword
C23_Witness ==
    /\ MetadataPrepared
    /\ Len(calls) >= 2
    /\ Len(SchemaTables) > 10
    /\ EndsWith("/records/batch", calls[2].endpoint)
    /\ LET purpose(j) == calls[2].data.records[j].fields["Purpose"]
           table(j) == calls[2].data.records[j].fields["Table Name"]
       IN  /\ table(1) = "Tasks" /\ purpose(1) = "Project/Task Management"
           /\ table(5) = "Client Projects" /\ purpose(5) = "Project/Task Management"
           /\ table(6) = "Inventory Events" /\ purpose(6) = "Product/Inventory Tracking"
           /\ table(7) = "Calendar" /\ purpose(7) = "Event/Schedule Management"
           /\ table(8) = "Mail" /\ purpose(8) = "Contact Information"
           /\ table(9) = "Ledger" /\ purpose(9) = "Financial/Budget Tracking"
           /\ table(10) = "Notes" /\ purpose(10) = "General Data Storage"

\* create_metadata_table returned the payload of the manual-creation
\* fallback
FallbackReturned ==
    /\ MetadataPrepared
    /\ pc = "done"
    /\ "json" \in DOMAIN result[1]
    /\ "action_required" \in DOMAIN result[1].json
    /\ result[1].json.action_required = "MANUAL_TABLE_CREATION"

\* C27: create_metadata_table returns the manual-creation fallback payload
\* only in invocations in which the table-creation POST itself failed:
\* once that POST was answered, no later failure leads to that payload.
C27_FallbackOnlyAfterFailedCreation ==
    FallbackReturned =>
        \E k \in DOMAIN calls :
            /\ calls[k].endpoint = WebTablesEndpoint(arguments["base_id"])
            /\ ~replies[k].ok

---------------------------------------------------------------------------
(* Properties of the duplicate report *)

\* find_duplicates returned its report
Reported ==
    /\ pc = "done"
    /\ name = "find_duplicates"
    /\ HasKeys({"base_id", "table_id", "fields"})
    /\ Len(result) = 1
    /\ "json" \in DOMAIN result[1]

\* the groups of the report
ReportedGroups == result[1].json.duplicates

\* null, or a string with nothing left after trimming
IsBlank(v) == v = JNull \/ (IsStr(v) /\ Strip(v.str) = "")

\* C28: with ignore_empty true (the default), no group of the report has
\* an empty value (null, or a string that is empty after trimming) in a
\* compared field: a record whose compared value holds only blanks is left
\* out like one whose value is the empty string.
C28_NoBlankValueInGroups ==
    (Reported /\ Get(arguments, "ignore_empty", TRUE)) =>
        \A g \in DOMAIN ReportedGroups :
            /\ \A f \in DOMAIN ReportedGroups[g].duplicate_values :
                   ~IsBlank(ReportedGroups[g].duplicate_values[f])
            /\ \A k \in DOMAIN ReportedGroups[g].records :
                   \A f \in DOMAIN ReportedGroups[g].records[k].fields :
                       ~IsBlank(ReportedGroups[g].records[k].fields[f])

\* the ids of the records of group g of the report
GroupIds(g) == {ReportedGroups[g].records[k].id : k \in DOMAIN ReportedGroups[g].records}

\* C29: in every report of find_duplicates the groups partition a subset of
\* the fetched records: a fetched record is in at most one group and at
\* most once, every group has record_count >= 2 equal to the length of its
\* records list, duplicate_groups_found is the number of groups, and
\* total_duplicate_records is the sum of the group sizes and at most
\* total_records_checked, the number of fetched records.
C29_GroupsPartition ==
    Reported =>
        LET report == result[1].json
        IN  /\ \A g \in DOMAIN ReportedGroups :
                   /\ GroupIds(g) \subseteq {Fetched[i].id : i \in DOMAIN Fetched}
                   /\ Cardinality(GroupIds(g)) = Len(ReportedGroups[g].records)
                   /\ ReportedGroups[g].record_count = Len(ReportedGroups[g].records)
                   /\ ReportedGroups[g].record_count >= 2
                   /\ \A h \in DOMAIN ReportedGroups :
                          g # h => GroupIds(g) \cap GroupIds(h) = {}
            /\ report.duplicate_groups_found = Len(ReportedGroups)
            /\ report.total_duplicate_records
                   = Sum([g \in DOMAIN ReportedGroups |-> Len(ReportedGroups[g].records)])
            /\ report.total_records_checked = Len(Fetched)
            /\ report.total_duplicate_records <= report.total_records_checked

\* four records fetched, the first with the third and the second with the
\* fourth in the two groups of the report
C29_Witness ==
    /\ Reported
    /\ Len(Fetched) = 4
    /\ Len(ReportedGroups) = 2
    /\ GroupIds(1) = {"rec5", "rec6"}
    /\ GroupIds(2) = {"rec1", "rec2"}
    /\ result[1].json.total_duplicate_records = 4

---------------------------------------------------------------------------
(* Properties of the sync plan *)

\* sync_tables returned its plan
SyncPlanned ==
    /\ pc = "done"
    /\ name = "sync_tables"
    /\ HasKeys({"source_base_id", "source_table_id", "target_base_id",
                "target_table_id", "key_field"})
    /\ Len(replies) = 2
    /\ AllAnswered

\* a key value as text
KeyAsText(v) == IF IsStr(v) THEN v.str ELSE IF IsNum(v) THEN ToString(v.num) ELSE "None"

\* the keys of the entries of a change list of the plan, as text
PlanKeys(entries) == {KeyAsText(entries[k].key) : k \in DOMAIN entries}

\* C30: in every plan of sync_tables the keys marked create, update and
\* delete are pairwise disjoint, every delete key is the key of a target
\* record and every create or update key the key of a source record; when
\* the source and the target record lists are identical the plan has no
\* creates and no deletes, and no updates provided no two records of the
\* list have the same key.  (The plan lists up to five entries per kind;
\* with no more than five, the lists are the whole plan.)
C30_SyncPlanConsistent ==
    SyncPlanned =>
        LET plan == result[1].json
            creates == PlanKeys(plan.changes.create)
            updates == PlanKeys(plan.changes.update)
            deletes == PlanKeys(plan.changes.delete)
            unique == \A i, j \in DOMAIN SourceRecords :
                          i # j => KeyText(SourceRecords[i]) # KeyText(SourceRecords[j])
        IN  /\ Len(plan.changes.create) = plan.sync_summary.records_to_create
            /\ Len(plan.changes.update) = plan.sync_summary.records_to_update
            /\ Len(plan.changes.delete) = plan.sync_summary.records_to_delete
            /\ creates \cap updates = {}
            /\ creates \cap deletes = {}
            /\ updates \cap deletes = {}
            /\ deletes \subseteq {KeyText(TargetRecords[j]) : j \in DOMAIN TargetRecords}
            /\ \A k \in DOMAIN plan.changes.delete :
                   \E j \in DOMAIN TargetRecords :
                       plan.changes.delete[k].id = TargetRecords[j].id
            /\ (creates \cup updates)
                   \subseteq {KeyText(SourceRecords[i]) : i \in DOMAIN SourceRecords}
            /\ \A k \in DOMAIN plan.changes.create :
                   \E i \in DOMAIN SourceRecords :
                       plan.changes.create[k].fields = SourceRecords[i]["fields"]
            /\ SourceRecords = TargetRecords =>
                   /\ plan.sync_summary.records_to_create = 0
                   /\ plan.sync_summary.records_to_delete = 0
                   /\ unique => plan.sync_summary.records_to_update = 0

\* a plan with a key to create, one to update and one to delete
C30_Witness ==
    /\ SyncPlanned
    /\ Len(SourceRecords) = 2
    /\ Len(TargetRecords) = 2
    /\ PlanKeys(result[1].json.changes.create) = {"K6"}
    /\ PlanKeys(result[1].json.changes.update) = {"K1"}
    /\ PlanKeys(result[1].json.changes.delete) = {"K2"}

---------------------------------------------------------------------------
(* Properties of the transports *)

\* an invocation served alone by transport t against the replies rs: the
\* gateway calls it issues, in order, and the step it ends with (its
\* return, or the call it waits at when rs is used up)
RECURSIVE Replay(_, _, _, _, _, _)
Replay(t, tool, args, step, rs, issued) ==
    IF step.op # "call" THEN [calls |-> issued, end |-> step]
    ELSE IF Len(issued) >= Len(rs) THEN [calls |-> Append(issued, step.call), end |-> step]
    ELSE Replay(t, tool, args,
                Serve(t, tool, args, step.at, step.frame, rs[Len(issued) + 1]),
                rs, Append(issued, step.call))

Alone(t, tool, args, rs) ==
    Replay(t, tool, args, Serve(t, tool, args, "entry", EmptyDict, NoReply), rs, <<>>)

\* the transport the invocation did not come through
OtherTransport == CHOOSE t \in Transports : t # transport

\* C24: the two transports behave identically: for every tool name and
\* argument map and the same gateway replies, POST /tools/call and
\* call_tool issue the same sequence of gateway calls and hand back the
\* same result content.  The invocation of the state came through one
\* transport; the same name and arguments served by the other transport
\* against the same replies give the same calls, end at the same point and
\* return the same content.
C24_TransportsAgree ==
    pc # "idle" =>
        LET other == Alone(OtherTransport, name, arguments, replies)
        IN  /\ other.calls = calls
            /\ (pc = "done") = (other.end.op # "call")
            /\ pc = "done" =>
                   /\ other.end.op = "return"
                   /\ "result" \in DOMAIN response
                   /\ other.end.result.result = response.result

\* an invocation through HTTP that made two gateway calls and returned the
\* dispatcher's error text, as the same invocation through call_tool does
C24_Witness ==
    /\ pc = "done"
    /\ transport = "http"
    /\ Len(calls) = 2
    /\ ~replies[2].ok
    /\ response.result = <<Text("Error: " \o replies[2].error)>>
    /\ Alone("stdio", name, arguments, replies).end.result.result = response.result

\* C26: POST /tools/call reports success=true and no error for every
\* invocation in which the dispatcher returns, also when the result is an
\* "Unknown tool: ..." or "Error: ..." text, and hands back the
\* dispatcher's result; the dispatcher never raises, so success=false is
\* produced for no tool name and argument map.
C26_HttpAlwaysSucceeds ==
    (pc = "done" /\ transport = "http") =>
        /\ ~escaped
        /\ DOMAIN response = {"result", "success", "error"}
        /\ response.success = TRUE
        /\ response.error = NoValue
        /\ response.result = result

\* POST /tools/call answered success=true with the text of an exception
\* that left the handler
C26_Witness ==
    /\ pc = "done"
    /\ transport = "http"
    /\ handler_exc # NoValue
    /\ result = <<Text("Error: " \o handler_exc)>>
    /\ response.success = TRUE
    /\ response.error = NoValue
    /\ response.result = result

---------------------------------------------------------------------------
(* Properties of concurrent invocations *)

\* C25: concurrent invocations do not interfere through in-process state:
\* when invocations interleave at their gateway-call suspension points,
\* each one's gateway call sequence and result are those it produces when
\* it runs alone against the gateway replies it received.
C25_InvocationsIndependent ==
    \A i \in DOMAIN tasks :
        tasks[i].pc # "idle" =>
            LET alone == Alone("stdio", tasks[i].name, tasks[i].arguments, tasks[i].replies)
            IN  /\ alone.calls = tasks[i].calls
                /\ (tasks[i].pc = "done") = (alone.end.op # "call")
                /\ tasks[i].pc = "done" =>
                       /\ alone.end.op = "return"
                       /\ alone.end.result.result = tasks[i].result

\* two batch updates in flight at once, both past their first PATCH, which
\* failed for the first invocation only; the second then finished without
\* an error entry
C25_Witness ==
    /\ \A i \in 1..2 : i \in DOMAIN tasks /\ tasks[i].name = "batch_update_records"
    /\ tasks[1].pc = "await"
    /\ Len(tasks[1].calls) = 2
    /\ ~tasks[1].replies[1].ok
    /\ tasks[2].pc = "done"
    /\ Len(tasks[2].calls) = 2
    /\ "json" \in DOMAIN tasks[2].result[1]
    /\ tasks[2].result[1].json.errors = <<>>
    /\ Len(tasks[2].result[1].json.updated_records) = 2

=============================================================================
